---------------------------- MODULE Spec2Model ----------------------------
(***************************************************************************)
(* A model of the firmware reconstruction and analysis tools:              *)
(*   hc08_disasm.py   the opcode tables and the linear disassembler        *)
(*   analyze_pdm.py   the linear analysis scans over the same buffer       *)
(*   srec_to_bin.py   the S-record loader and the dense image writer       *)
(* Python indexes from 0 and TLA+ sequences from 1: data[i] of the code is *)
(* data[i + 1] here, and every cursor (pc, i) keeps the code's 0-based     *)
(* value.  Optional values (None) are the empty tuple, a present value n   *)
(* is the 1-tuple <<n>>.                                                   *)
(***************************************************************************)
EXTENDS Integers, Sequences, FiniteSets, TLC

(***************************************************************************)
(* Bounds of the model                                                     *)
(***************************************************************************)
\* longest buffer handed to a pass
MaxLen == 4
\* largest decode limit handed to disassemble
MaxLimit == 2

None == <<>>
Some(n) == <<n>>

Min(a, b) == IF a < b THEN a ELSE b

(***************************************************************************)
(* hc08_disasm.py: the opcode tables.  An entry is                         *)
(* <<mnemonic, addressing mode, size>>.                                    *)
(***************************************************************************)
(* primary opcode table as written in the dictionary literal *)
HC08_OPCODES_literal ==
    32 :> <<"BRA", "REL", 2>> @@ 33 :> <<"BRN", "REL", 2>>
    @@ 34 :> <<"BHI", "REL", 2>> @@ 35 :> <<"BLS", "REL", 2>>
    @@ 36 :> <<"BCC", "REL", 2>> @@ 37 :> <<"BCS", "REL", 2>>
    @@ 38 :> <<"BNE", "REL", 2>> @@ 39 :> <<"BEQ", "REL", 2>>
    @@ 40 :> <<"BHCC", "REL", 2>> @@ 41 :> <<"BHCS", "REL", 2>>
    @@ 42 :> <<"BPL", "REL", 2>> @@ 43 :> <<"BMI", "REL", 2>>
    @@ 44 :> <<"BMC", "REL", 2>> @@ 45 :> <<"BMS", "REL", 2>>
    @@ 46 :> <<"BIL", "REL", 2>> @@ 47 :> <<"BIH", "REL", 2>>
    @@ 48 :> <<"NEG", "DIR", 2>> @@ 51 :> <<"COM", "DIR", 2>>
    @@ 52 :> <<"LSR", "DIR", 2>> @@ 54 :> <<"ROR", "DIR", 2>>
    @@ 55 :> <<"ASR", "DIR", 2>> @@ 56 :> <<"LSL", "DIR", 2>>
    @@ 57 :> <<"ROL", "DIR", 2>> @@ 58 :> <<"DEC", "DIR", 2>>
    @@ 60 :> <<"INC", "DIR", 2>> @@ 61 :> <<"TST", "DIR", 2>>
    @@ 63 :> <<"CLR", "DIR", 2>> @@ 64 :> <<"NEGA", "INH", 1>>
    @@ 65 :> <<"CBEQA", "IMM_REL", 3>> @@ 66 :> <<"MUL", "INH", 1>>
    @@ 67 :> <<"COMA", "INH", 1>> @@ 68 :> <<"LSRA", "INH", 1>>
    @@ 70 :> <<"RORA", "INH", 1>> @@ 71 :> <<"ASRA", "INH", 1>>
    @@ 72 :> <<"LSLA", "INH", 1>> @@ 73 :> <<"ROLA", "INH", 1>>
    @@ 74 :> <<"DECA", "INH", 1>> @@ 75 :> <<"DBNZA", "REL", 2>>
    @@ 76 :> <<"INCA", "INH", 1>> @@ 77 :> <<"TSTA", "INH", 1>>
    @@ 79 :> <<"CLRA", "INH", 1>> @@ 80 :> <<"NEGX", "INH", 1>>
    @@ 81 :> <<"CBEQX", "IMM_REL", 3>> @@ 82 :> <<"DIV", "INH", 1>>
    @@ 83 :> <<"COMX", "INH", 1>> @@ 84 :> <<"LSRX", "INH", 1>>
    @@ 86 :> <<"RORX", "INH", 1>> @@ 87 :> <<"ASRX", "INH", 1>>
    @@ 88 :> <<"LSLX", "INH", 1>> @@ 89 :> <<"ROLX", "INH", 1>>
    @@ 90 :> <<"DECX", "INH", 1>> @@ 91 :> <<"DBNZX", "REL", 2>>
    @@ 92 :> <<"INCX", "INH", 1>> @@ 93 :> <<"TSTX", "INH", 1>>
    @@ 95 :> <<"CLRX", "INH", 1>> @@ 96 :> <<"NEG", "IX", 1>>
    @@ 97 :> <<"CBEQ", "IX_REL", 2>> @@ 99 :> <<"COM", "IX", 1>>
    @@ 100 :> <<"LSR", "IX", 1>> @@ 102 :> <<"ROR", "IX", 1>>
    @@ 103 :> <<"ASR", "IX", 1>> @@ 104 :> <<"LSL", "IX", 1>>
    @@ 105 :> <<"ROL", "IX", 1>> @@ 106 :> <<"DEC", "IX", 1>>
    @@ 107 :> <<"DBNZ", "IX_REL", 2>> @@ 108 :> <<"INC", "IX", 1>>
    @@ 109 :> <<"TST", "IX", 1>> @@ 111 :> <<"CLR", "IX", 1>>
    @@ 112 :> <<"NEG", "IX1", 2>> @@ 113 :> <<"CBEQ", "IX1_REL", 3>>
    @@ 115 :> <<"COM", "IX1", 2>> @@ 116 :> <<"LSR", "IX1", 2>>
    @@ 118 :> <<"ROR", "IX1", 2>> @@ 119 :> <<"ASR", "IX1", 2>>
    @@ 120 :> <<"LSL", "IX1", 2>> @@ 121 :> <<"ROL", "IX1", 2>>
    @@ 122 :> <<"DEC", "IX1", 2>> @@ 123 :> <<"DBNZ", "IX1_REL", 3>>
    @@ 124 :> <<"INC", "IX1", 2>> @@ 125 :> <<"TST", "IX1", 2>>
    @@ 127 :> <<"CLR", "IX1", 2>> @@ 128 :> <<"RTI", "INH", 1>>
    @@ 129 :> <<"RTS", "INH", 1>> @@ 131 :> <<"SWI", "INH", 1>>
    @@ 132 :> <<"TAP", "INH", 1>> @@ 133 :> <<"TPA", "INH", 1>>
    @@ 134 :> <<"PULA", "INH", 1>> @@ 135 :> <<"PSHA", "INH", 1>>
    @@ 136 :> <<"PULX", "INH", 1>> @@ 137 :> <<"PSHX", "INH", 1>>
    @@ 138 :> <<"PULH", "INH", 1>> @@ 139 :> <<"PSHH", "INH", 1>>
    @@ 140 :> <<"CLRH", "INH", 1>> @@ 142 :> <<"STOP", "INH", 1>>
    @@ 143 :> <<"WAIT", "INH", 1>> @@ 144 :> <<"BGE", "REL", 2>>
    @@ 145 :> <<"BLT", "REL", 2>> @@ 146 :> <<"BGT", "REL", 2>>
    @@ 147 :> <<"BLE", "REL", 2>> @@ 148 :> <<"TXS", "INH", 1>>
    @@ 149 :> <<"TSX", "INH", 1>> @@ 151 :> <<"TAX", "INH", 1>>
    @@ 152 :> <<"CLC", "INH", 1>> @@ 153 :> <<"SEC", "INH", 1>>
    @@ 154 :> <<"CLI", "INH", 1>> @@ 155 :> <<"SEI", "INH", 1>>
    @@ 156 :> <<"RSP", "INH", 1>> @@ 157 :> <<"NOP", "INH", 1>>
    @@ 159 :> <<"TXA", "INH", 1>> @@ 160 :> <<"SUB", "IMM", 2>>
    @@ 161 :> <<"CMP", "IMM", 2>> @@ 162 :> <<"SBC", "IMM", 2>>
    @@ 163 :> <<"CPX", "IMM", 2>> @@ 164 :> <<"AND", "IMM", 2>>
    @@ 165 :> <<"BIT", "IMM", 2>> @@ 166 :> <<"LDA", "IMM", 2>>
    @@ 168 :> <<"EOR", "IMM", 2>> @@ 169 :> <<"ADC", "IMM", 2>>
    @@ 170 :> <<"ORA", "IMM", 2>> @@ 171 :> <<"ADD", "IMM", 2>>
    @@ 173 :> <<"BSR", "REL", 2>> @@ 174 :> <<"LDX", "IMM", 2>>
    @@ 175 :> <<"AIX", "IMM", 2>> @@ 176 :> <<"SUB", "DIR", 2>>
    @@ 177 :> <<"CMP", "DIR", 2>> @@ 178 :> <<"SBC", "DIR", 2>>
    @@ 179 :> <<"CPX", "DIR", 2>> @@ 180 :> <<"AND", "DIR", 2>>
    @@ 181 :> <<"BIT", "DIR", 2>> @@ 182 :> <<"LDA", "DIR", 2>>
    @@ 183 :> <<"STA", "DIR", 2>> @@ 184 :> <<"EOR", "DIR", 2>>
    @@ 185 :> <<"ADC", "DIR", 2>> @@ 186 :> <<"ORA", "DIR", 2>>
    @@ 187 :> <<"ADD", "DIR", 2>> @@ 188 :> <<"JMP", "DIR", 2>>
    @@ 189 :> <<"JSR", "DIR", 2>> @@ 190 :> <<"LDX", "DIR", 2>>
    @@ 191 :> <<"STX", "DIR", 2>> @@ 192 :> <<"SUB", "EXT", 3>>
    @@ 193 :> <<"CMP", "EXT", 3>> @@ 194 :> <<"SBC", "EXT", 3>>
    @@ 195 :> <<"CPX", "EXT", 3>> @@ 196 :> <<"AND", "EXT", 3>>
    @@ 197 :> <<"BIT", "EXT", 3>> @@ 198 :> <<"LDA", "EXT", 3>>
    @@ 199 :> <<"STA", "EXT", 3>> @@ 200 :> <<"EOR", "EXT", 3>>
    @@ 201 :> <<"ADC", "EXT", 3>> @@ 202 :> <<"ORA", "EXT", 3>>
    @@ 203 :> <<"ADD", "EXT", 3>> @@ 204 :> <<"JMP", "EXT", 3>>
    @@ 205 :> <<"JSR", "EXT", 3>> @@ 206 :> <<"LDX", "EXT", 3>>
    @@ 207 :> <<"STX", "EXT", 3>> @@ 208 :> <<"SUB", "IX2", 3>>
    @@ 209 :> <<"CMP", "IX2", 3>> @@ 210 :> <<"SBC", "IX2", 3>>
    @@ 211 :> <<"CPX", "IX2", 3>> @@ 212 :> <<"AND", "IX2", 3>>
    @@ 213 :> <<"BIT", "IX2", 3>> @@ 214 :> <<"LDA", "IX2", 3>>
    @@ 215 :> <<"STA", "IX2", 3>> @@ 216 :> <<"EOR", "IX2", 3>>
    @@ 217 :> <<"ADC", "IX2", 3>> @@ 218 :> <<"ORA", "IX2", 3>>
    @@ 219 :> <<"ADD", "IX2", 3>> @@ 220 :> <<"JMP", "IX2", 3>>
    @@ 221 :> <<"JSR", "IX2", 3>> @@ 222 :> <<"LDX", "IX2", 3>>
    @@ 223 :> <<"STX", "IX2", 3>> @@ 224 :> <<"SUB", "IX1", 2>>
    @@ 225 :> <<"CMP", "IX1", 2>> @@ 226 :> <<"SBC", "IX1", 2>>
    @@ 227 :> <<"CPX", "IX1", 2>> @@ 228 :> <<"AND", "IX1", 2>>
    @@ 229 :> <<"BIT", "IX1", 2>> @@ 230 :> <<"LDA", "IX1", 2>>
    @@ 231 :> <<"STA", "IX1", 2>> @@ 232 :> <<"EOR", "IX1", 2>>
    @@ 233 :> <<"ADC", "IX1", 2>> @@ 234 :> <<"ORA", "IX1", 2>>
    @@ 235 :> <<"ADD", "IX1", 2>> @@ 236 :> <<"JMP", "IX1", 2>>
    @@ 237 :> <<"JSR", "IX1", 2>> @@ 238 :> <<"LDX", "IX1", 2>>
    @@ 239 :> <<"STX", "IX1", 2>> @@ 240 :> <<"SUB", "IX", 1>>
    @@ 241 :> <<"CMP", "IX", 1>> @@ 242 :> <<"SBC", "IX", 1>>
    @@ 243 :> <<"CPX", "IX", 1>> @@ 244 :> <<"AND", "IX", 1>>
    @@ 245 :> <<"BIT", "IX", 1>> @@ 246 :> <<"LDA", "IX", 1>>
    @@ 247 :> <<"STA", "IX", 1>> @@ 248 :> <<"EOR", "IX", 1>>
    @@ 249 :> <<"ADC", "IX", 1>> @@ 250 :> <<"ORA", "IX", 1>>
    @@ 251 :> <<"ADD", "IX", 1>> @@ 252 :> <<"JMP", "IX", 1>>
    @@ 253 :> <<"JSR", "IX", 1>> @@ 254 :> <<"LDX", "IX", 1>>
    @@ 255 :> <<"STX", "IX", 1>>

(* entries added by the bit-manipulation loop, i = 0..7 *)
HC08_OPCODES_bits ==
    0 :> <<"BRSET0", "DIR_REL", 3>> @@ 1 :> <<"BRCLR0", "DIR_REL", 3>>
    @@ 2 :> <<"BRSET1", "DIR_REL", 3>> @@ 3 :> <<"BRCLR1", "DIR_REL", 3>>
    @@ 4 :> <<"BRSET2", "DIR_REL", 3>> @@ 5 :> <<"BRCLR2", "DIR_REL", 3>>
    @@ 6 :> <<"BRSET3", "DIR_REL", 3>> @@ 7 :> <<"BRCLR3", "DIR_REL", 3>>
    @@ 8 :> <<"BRSET4", "DIR_REL", 3>> @@ 9 :> <<"BRCLR4", "DIR_REL", 3>>
    @@ 10 :> <<"BRSET5", "DIR_REL", 3>> @@ 11 :> <<"BRCLR5", "DIR_REL", 3>>
    @@ 12 :> <<"BRSET6", "DIR_REL", 3>> @@ 13 :> <<"BRCLR6", "DIR_REL", 3>>
    @@ 14 :> <<"BRSET7", "DIR_REL", 3>> @@ 15 :> <<"BRCLR7", "DIR_REL", 3>>
    @@ 16 :> <<"BSET0", "DIR", 2>> @@ 17 :> <<"BCLR0", "DIR", 2>>
    @@ 18 :> <<"BSET1", "DIR", 2>> @@ 19 :> <<"BCLR1", "DIR", 2>>
    @@ 20 :> <<"BSET2", "DIR", 2>> @@ 21 :> <<"BCLR2", "DIR", 2>>
    @@ 22 :> <<"BSET3", "DIR", 2>> @@ 23 :> <<"BCLR3", "DIR", 2>>
    @@ 24 :> <<"BSET4", "DIR", 2>> @@ 25 :> <<"BCLR4", "DIR", 2>>
    @@ 26 :> <<"BSET5", "DIR", 2>> @@ 27 :> <<"BCLR5", "DIR", 2>>
    @@ 28 :> <<"BSET6", "DIR", 2>> @@ 29 :> <<"BCLR6", "DIR", 2>>
    @@ 30 :> <<"BSET7", "DIR", 2>> @@ 31 :> <<"BCLR7", "DIR", 2>>

HC08_9E_OPCODES ==
    96 :> <<"NEG", "SP1", 2>> @@ 99 :> <<"COM", "SP1", 2>>
    @@ 100 :> <<"LSR", "SP1", 2>> @@ 102 :> <<"ROR", "SP1", 2>>
    @@ 103 :> <<"ASR", "SP1", 2>> @@ 104 :> <<"LSL", "SP1", 2>>
    @@ 105 :> <<"ROL", "SP1", 2>> @@ 106 :> <<"DEC", "SP1", 2>>
    @@ 107 :> <<"DBNZ", "SP1_REL", 3>> @@ 108 :> <<"INC", "SP1", 2>>
    @@ 109 :> <<"TST", "SP1", 2>> @@ 111 :> <<"CLR", "SP1", 2>>
    @@ 208 :> <<"SUB", "SP2", 3>> @@ 209 :> <<"CMP", "SP2", 3>>
    @@ 210 :> <<"SBC", "SP2", 3>> @@ 211 :> <<"CPX", "SP2", 3>>
    @@ 212 :> <<"AND", "SP2", 3>> @@ 213 :> <<"BIT", "SP2", 3>>
    @@ 214 :> <<"LDA", "SP2", 3>> @@ 215 :> <<"STA", "SP2", 3>>
    @@ 216 :> <<"EOR", "SP2", 3>> @@ 217 :> <<"ADC", "SP2", 3>>
    @@ 218 :> <<"ORA", "SP2", 3>> @@ 219 :> <<"ADD", "SP2", 3>>
    @@ 224 :> <<"SUB", "SP1", 2>> @@ 225 :> <<"CMP", "SP1", 2>>
    @@ 226 :> <<"SBC", "SP1", 2>> @@ 227 :> <<"CPX", "SP1", 2>>
    @@ 228 :> <<"AND", "SP1", 2>> @@ 229 :> <<"BIT", "SP1", 2>>
    @@ 230 :> <<"LDA", "SP1", 2>> @@ 231 :> <<"STA", "SP1", 2>>
    @@ 232 :> <<"EOR", "SP1", 2>> @@ 233 :> <<"ADC", "SP1", 2>>
    @@ 234 :> <<"ORA", "SP1", 2>> @@ 235 :> <<"ADD", "SP1", 2>>

IO_REGS ==
    0 :> "PORTA" @@ 1 :> "PORTB"
    @@ 2 :> "PORTC" @@ 3 :> "PORTD"
    @@ 4 :> "DDRA" @@ 5 :> "DDRB"
    @@ 6 :> "DDRC" @@ 7 :> "DDRD"
    @@ 8 :> "PORTE" @@ 9 :> "PORTF"
    @@ 10 :> "PORTG" @@ 12 :> "DDRE"
    @@ 13 :> "DDRF" @@ 14 :> "DDRG"
    @@ 16 :> "PTAPUE" @@ 17 :> "PTBPUE"
    @@ 18 :> "PTCPUE" @@ 19 :> "PTDPUE"
    @@ 26 :> "SCI1S1" @@ 27 :> "SCI1S2"
    @@ 28 :> "SCI1C1" @@ 29 :> "SCI1C2"
    @@ 30 :> "SCI1C3" @@ 31 :> "SCI1D"
    @@ 32 :> "SPIC1" @@ 33 :> "SPIC2"
    @@ 34 :> "SPIBR" @@ 35 :> "SPIS"
    @@ 37 :> "SPID" @@ 48 :> "T1SC"
    @@ 49 :> "T1CNTH" @@ 50 :> "T1CNTL"
    @@ 51 :> "T1MODH" @@ 52 :> "T1MODL"
    @@ 53 :> "T1SC0" @@ 54 :> "T1CH0H"
    @@ 55 :> "T1CH0L" @@ 56 :> "T1SC1"
    @@ 57 :> "T1CH1H" @@ 58 :> "T1CH1L"
    @@ 64 :> "ADCSC1" @@ 65 :> "ADCSC2"
    @@ 66 :> "ADCRH" @@ 67 :> "ADCRL"
    @@ 72 :> "CANCTL0" @@ 73 :> "CANCTL1"
    @@ 74 :> "CANBTR0" @@ 75 :> "CANBTR1"
    @@ 76 :> "CANRFLG" @@ 77 :> "CANRIER"
    @@ 78 :> "CANTFLG" @@ 79 :> "CANTIER"

(***************************************************************************)
(* analyze_pdm.py: its own table of named registers (IO_REGS there).       *)
(***************************************************************************)
IO_REGS_analyze ==
    0 :> "PORTA" @@ 1 :> "PORTB"
    @@ 2 :> "PORTC" @@ 3 :> "PORTD"
    @@ 4 :> "DDRA" @@ 5 :> "DDRB"
    @@ 6 :> "DDRC" @@ 7 :> "DDRD"
    @@ 8 :> "PORTE" @@ 9 :> "PORTF"
    @@ 10 :> "PORTG" @@ 12 :> "DDRE"
    @@ 13 :> "DDRF" @@ 14 :> "DDRG"
    @@ 16 :> "PTAPUE" @@ 17 :> "PTBPUE"
    @@ 18 :> "PTCPUE" @@ 19 :> "PTDPUE"
    @@ 20 :> "PTEPUE" @@ 21 :> "PTFPUE"
    @@ 22 :> "PTGPUE" @@ 24 :> "SCC1"
    @@ 25 :> "SCC2" @@ 26 :> "SCC3"
    @@ 27 :> "SCS1" @@ 28 :> "SCS2"
    @@ 29 :> "SCDR" @@ 30 :> "SCBR"
    @@ 32 :> "SPCR" @@ 33 :> "SPSCR"
    @@ 34 :> "SPDR" @@ 36 :> "TBCR"
    @@ 37 :> "TBDR" @@ 48 :> "T1SC"
    @@ 49 :> "T1CNTH" @@ 50 :> "T1CNTL"
    @@ 51 :> "T1MODH" @@ 52 :> "T1MODL"
    @@ 53 :> "T1SC0" @@ 54 :> "T1CH0H"
    @@ 55 :> "T1CH0L" @@ 56 :> "T1SC1"
    @@ 57 :> "T1CH1H" @@ 58 :> "T1CH1L"
    @@ 64 :> "T2SC" @@ 65 :> "T2CNTH"
    @@ 66 :> "T2CNTL" @@ 67 :> "T2MODH"
    @@ 68 :> "T2MODL" @@ 69 :> "T2SC0"
    @@ 70 :> "T2CH0H" @@ 71 :> "T2CH0L"
    @@ 72 :> "T2SC1" @@ 73 :> "T2CH1H"
    @@ 74 :> "T2CH1L" @@ 80 :> "ADSCR"
    @@ 81 :> "ADR" @@ 88 :> "CMCR0"
    @@ 89 :> "CMCR1" @@ 90 :> "CBTR0"
    @@ 91 :> "CBTR1" @@ 92 :> "CRFLG"
    @@ 93 :> "CRIER" @@ 94 :> "CTFLG"
    @@ 95 :> "CTIER" @@ 96 :> "CTARQ"
    @@ 97 :> "CTAAK" @@ 98 :> "CTBSEL"
    @@ 99 :> "CIDAC" @@ 100 :> "CRXERR"
    @@ 101 :> "CTXERR" @@ 104 :> "CIDAR0"
    @@ 105 :> "CIDAR1" @@ 106 :> "CIDAR2"
    @@ 107 :> "CIDAR3" @@ 112 :> "CIDMR0"
    @@ 113 :> "CIDMR1" @@ 114 :> "CIDMR2"
    @@ 115 :> "CIDMR3" @@ 116 :> "CIDAR4"
    @@ 117 :> "CIDAR5" @@ 118 :> "CIDAR6"
    @@ 119 :> "CIDAR7" @@ 120 :> "CIDMR4"
    @@ 121 :> "CIDMR5" @@ 122 :> "CIDMR6"
    @@ 123 :> "CIDMR7" @@ 128 :> "CRXFG"
    @@ 144 :> "CTXFG" @@ 65024 :> "CONFIG2"
    @@ 65025 :> "CONFIG1"

HC08_OPCODES == HC08_OPCODES_bits @@ HC08_OPCODES_literal

(***************************************************************************)
(* Reading the buffer.  Len(data) is len(data); Byte(d, i) is d[i] for an  *)
(* index inside the buffer.  An index outside it raises IndexError in the  *)
(* code; the model gives it the value 256 (no byte) and records the index in  *)
(* the set of indices read, so that such a read is visible in the state.   *)
(***************************************************************************)
Byte(d, i) == IF i >= 0 /\ i < Len(d) THEN d[i + 1] ELSE 256

\* rel = data[..]; if rel > 127: rel -= 256
Signed8(rel) == IF rel > 127 THEN rel - 256 ELSE rel

\* (data[i] << 8) | data[i + 1]
Word_littleEndian(hi, lo) == lo * 256 + hi
Word(hi, lo) == hi * 256 + lo

\* get_reg_name: the register's name, a REG_/RAM_ label built from the
\* address, or None
get_reg_name(addr) ==
    IF addr \in DOMAIN IO_REGS THEN <<IO_REGS[addr]>>
    ELSE IF addr < 64 THEN <<"REG_%02X", addr>>
    ELSE IF addr < 2112 THEN <<"RAM_%04X", addr>>
    ELSE None

(***************************************************************************)
(* hc08_disasm.py, disassemble: one output line.  The code formats a text  *)
(* line "{addr:04X}: {bytes_str:15s} {mnem:8s} {operand}"; the model keeps *)
(* its parts: the address, the number of raw bytes printed, the mnemonic   *)
(* and the operand as its format with the values formatted into it.  mode  *)
(* and size are the table's mode and the length the cursor advances by;    *)
(* the text does not print them.                                           *)
(***************************************************************************)
Operand(fmt, name, v) == [fmt |-> fmt, name |-> name, v |-> v]

OutLine(addr, nbytes, mnem, mode, size, operand) ==
    [addr |-> addr, nbytes |-> nbytes, mnem |-> mnem, mode |-> mode,
     size |-> size, operand |-> operand]

\* target = addr + size + rel, after rel was sign-adjusted
RelTarget_unsigned(addr, size, rel) == addr + size + rel
RelTarget(addr, size, rel) == addr + size + Signed8(rel)

\* the undecoded line and the advance by 1 (both DB branches)
DecodeDB_advance2(d, pc, addr) ==
    [line |-> OutLine(addr, 1, "DB", "", 2, Operand("$%02X", None, <<Byte(d, pc)>>)),
     reads |-> {pc}]
DecodeDB(d, pc, addr) ==
    [line |-> OutLine(addr, 1, "DB", "", 1, Operand("$%02X", None, <<Byte(d, pc)>>)),
     reads |-> {pc}]

\* range(min(size, len(data)-pc)) of the prefixed branch's bytes_str
PrefixedRawCount_unclamped(d, pc, size) == size
PrefixedRawCount(d, pc, size) == Min(size, Len(d) - pc)

\* opcode == 0x9E and pc + 1 < len(data), then sub_op in HC08_9E_OPCODES
IsPrefixed(d, pc) ==
    /\ Byte(d, pc) = 158
    /\ pc + 1 < Len(d)
    /\ Byte(d, pc + 1) \in DOMAIN HC08_9E_OPCODES

\* size += 1  # Account for prefix
PrefixedSize_tabulated(size) == size
PrefixedSize(size) == size + 1

\* the branch taken for a 0x9E-prefixed instruction
DecodePrefixed(d, pc, addr) ==
    LET e == HC08_9E_OPCODES[Byte(d, pc + 1)]
        mnem == e[1]
        mode == e[2]
        size == PrefixedSize(e[3])
        n == PrefixedRawCount(d, pc, size)
        raw == {pc + i : i \in 0..(n - 1)}
        hdr == {pc, pc + 1}
    IN  IF mode = "SP1" /\ pc + 2 < Len(d) THEN
            [line |-> OutLine(addr, n, mnem, mode, size,
                        Operand("$%02X,SP", None, <<Byte(d, pc + 2)>>)),
             reads |-> hdr \cup raw \cup {pc + 2}]
        ELSE IF mode = "SP2" /\ pc + 3 < Len(d) THEN
            [line |-> OutLine(addr, n, mnem, mode, size,
                        Operand("$%04X,SP", None,
                                <<Word(Byte(d, pc + 2), Byte(d, pc + 3))>>)),
             reads |-> hdr \cup raw \cup {pc + 2, pc + 3}]
        ELSE IF mode = "SP1_REL" /\ pc + 3 < Len(d) THEN
            [line |-> OutLine(addr, n, mnem, mode, size,
                        Operand("$%02X,SP, $%04X", None,
                                <<Byte(d, pc + 2),
                                  RelTarget(addr, size, Byte(d, pc + 3))>>)),
             reads |-> hdr \cup raw \cup {pc + 2, pc + 3}]
        ELSE
            [line |-> OutLine(addr, n, mnem, mode, size, Operand("???", None, <<>>)),
             reads |-> hdr \cup raw]

\* the operand of an instruction of the primary table, by addressing mode
PrimaryOperand(d, pc, addr, mode, size) ==
    LET b1 == Byte(d, pc + 1)
        b2 == Byte(d, pc + 2)
    IN  CASE mode = "INH" -> [op |-> Operand("", None, <<>>), reads |-> {}]
          [] mode = "IMM" -> [op |-> Operand("#$%02X", None, <<b1>>), reads |-> {pc + 1}]
          [] mode = "DIR" ->
                [op |-> IF get_reg_name(b1) # None
                        THEN Operand("<%s", get_reg_name(b1), <<>>)
                        ELSE Operand("<$%02X", None, <<b1>>),
                 reads |-> {pc + 1}]
          [] mode = "EXT" ->
                [op |-> Operand("$%04X", None, <<Word(b1, b2)>>),
                 reads |-> {pc + 1, pc + 2}]
          [] mode = "IX" -> [op |-> Operand(",X", None, <<>>), reads |-> {}]
          [] mode = "IX1" -> [op |-> Operand("$%02X,X", None, <<b1>>), reads |-> {pc + 1}]
          [] mode = "IX2" ->
                [op |-> Operand("$%04X,X", None, <<Word(b1, b2)>>),
                 reads |-> {pc + 1, pc + 2}]
          [] mode = "REL" ->
                [op |-> Operand("$%04X", None, <<RelTarget(addr, size, b1)>>),
                 reads |-> {pc + 1}]
          [] mode = "DIR_REL" ->
                [op |-> IF get_reg_name(b1) # None
                        THEN Operand("<%s, $%04X", get_reg_name(b1),
                                     <<RelTarget(addr, size, b2)>>)
                        ELSE Operand("<$%02X, $%04X", None,
                                     <<b1, RelTarget(addr, size, b2)>>),
                 reads |-> {pc + 1, pc + 2}]
          [] mode = "IMM_REL" ->
                [op |-> Operand("#$%02X, $%04X", None,
                                <<b1, RelTarget(addr, size, b2)>>),
                 reads |-> {pc + 1, pc + 2}]
          [] mode = "IX_REL" ->
                [op |-> Operand(",X, $%04X", None, <<RelTarget(addr, size, b1)>>),
                 reads |-> {pc + 1}]
          [] mode = "IX1_REL" ->
                [op |-> Operand("$%02X,X, $%04X", None,
                                <<b1, RelTarget(addr, size, b2)>>),
                 reads |-> {pc + 1, pc + 2}]
          [] OTHER -> [op |-> Operand("???", None, <<>>), reads |-> {}]

\* the branch taken for an opcode of the primary table that fits the buffer
DecodePrimary(d, pc, addr) ==
    LET e == HC08_OPCODES[Byte(d, pc)]
        size == e[3]
        o == PrimaryOperand(d, pc, addr, e[2], size)
    IN  [line |-> OutLine(addr, size, e[1], e[2], size, o.op),
         reads |-> {pc} \cup {pc + i : i \in 0..(size - 1)} \cup o.reads]

\* one iteration of the while loop of disassemble, from "addr = base_addr + pc"
Decode(d, pc, base) ==
    LET addr == base + pc
        opcode == Byte(d, pc)
    IN  IF IsPrefixed(d, pc) THEN DecodePrefixed(d, pc, addr)
        ELSE IF opcode \notin DOMAIN HC08_OPCODES THEN
            LET r == DecodeDB(d, pc, addr)
            IN  [r EXCEPT !.reads = @ \cup (IF opcode = 158 /\ pc + 1 < Len(d)
                                            THEN {pc + 1} ELSE {})]
        ELSE IF pc + HC08_OPCODES[opcode][3] > Len(d) THEN DecodeDB(d, pc, addr)
        ELSE DecodePrimary(d, pc, addr)

(***************************************************************************)
(* analyze_pdm.py: one iteration of each scan's while loop.  Every step    *)
(* gives the cursor after the iteration, what the iteration adds to the    *)
(* pass's result, and the buffer indices it reads.                         *)
(***************************************************************************)

\* find_subroutines
SubStep(d, pc, base) ==
    LET op == Byte(d, pc)
    IN  IF op = 189 /\ pc + 1 < Len(d) THEN
            [pc |-> pc + 2, add |-> {Byte(d, pc + 1)}, reads |-> {pc, pc + 1}]
        ELSE IF op = 205 /\ pc + 2 < Len(d) THEN
            [pc |-> pc + 3, add |-> {Word(Byte(d, pc + 1), Byte(d, pc + 2))},
             reads |-> {pc, pc + 1, pc + 2}]
        ELSE IF op = 173 /\ pc + 1 < Len(d) THEN
            [pc |-> pc + 2, add |-> {base + pc + 2 + Signed8(Byte(d, pc + 1))},
             reads |-> {pc, pc + 1}]
        ELSE
            [pc |-> pc + 1, add |-> {}, reads |-> {pc}]

\* sorted(subs)
RECURSIVE sorted_descending(_)
sorted_descending(s) ==
    IF s = {} THEN <<>>
    ELSE LET m == CHOOSE x \in s : \A y \in s : x >= y
         IN  <<m>> \o sorted_descending(s \ {m})
RECURSIVE sorted(_)
sorted(s) ==
    IF s = {} THEN <<>>
    ELSE LET m == CHOOSE x \in s : \A y \in s : x <= y
         IN  <<m>> \o sorted(s \ {m})

\* io_reads[reg].append(addr) on a defaultdict(list)
AppendSite_overwrite(sites, reg, addr) ==
    (reg :> <<addr>>) @@ sites
AppendSite(sites, reg, addr) ==
    IF reg \in DOMAIN sites
    THEN [sites EXCEPT ![reg] = Append(@, addr)]
    ELSE (reg :> <<addr>>) @@ sites

\* find_io_accesses: dir is "r" (io_reads), "w" (io_writes) or "" (neither)
IoStep(d, pc, base) ==
    LET op == Byte(d, pc)
        b1 == Byte(d, pc + 1)
        ext == Word(Byte(d, pc + 1), Byte(d, pc + 2))
        one(dr) == [pc |-> pc + 2, dir |-> IF b1 \in DOMAIN IO_REGS_analyze THEN dr ELSE "",
                    reg |-> b1, reads |-> {pc, pc + 1}]
    IN  IF op = 182 /\ pc + 1 < Len(d) THEN one("r")
        ELSE IF op = 183 /\ pc + 1 < Len(d) THEN one("w")
        ELSE IF op = 190 /\ pc + 1 < Len(d) THEN one("r")
        ELSE IF op = 191 /\ pc + 1 < Len(d) THEN one("w")
        ELSE IF 16 <= op /\ op <= 31 /\ pc + 1 < Len(d) THEN one("w")
        ELSE IF 0 <= op /\ op <= 15 /\ pc + 2 < Len(d) THEN
            [pc |-> pc + 3, dir |-> IF b1 \in DOMAIN IO_REGS_analyze THEN "r" ELSE "",
             reg |-> b1, reads |-> {pc, pc + 1}]
        ELSE IF op = 198 /\ pc + 2 < Len(d) THEN
            [pc |-> pc + 3, dir |-> IF ext \in DOMAIN IO_REGS_analyze THEN "r" ELSE "",
             reg |-> ext, reads |-> {pc, pc + 1, pc + 2}]
        ELSE IF op = 199 /\ pc + 2 < Len(d) THEN
            [pc |-> pc + 3, dir |-> IF ext \in DOMAIN IO_REGS_analyze THEN "w" ELSE "",
             reg |-> ext, reads |-> {pc, pc + 1, pc + 2}]
        ELSE
            [pc |-> pc + 1, dir |-> "", reg |-> 0, reads |-> {pc}]

\* ram_reads[ext] += 1 on a defaultdict(int)
Count(counts, a) ==
    IF a \in DOMAIN counts
    THEN [counts EXCEPT ![a] = @ + 1]
    ELSE (a :> 1) @@ counts

\* find_ram_usage
RamStep(d, pc, base) ==
    LET op == Byte(d, pc)
        ext == Word(Byte(d, pc + 1), Byte(d, pc + 2))
    IN  IF 192 <= op /\ op <= 207 /\ op \notin {204, 205} /\ pc + 2 < Len(d) THEN
            [pc |-> pc + 3,
             dir |-> IF 64 <= ext /\ ext <= 2111
                     THEN (IF op = 199 THEN "w" ELSE "r") ELSE "",
             ext |-> ext, reads |-> {pc, pc + 1, pc + 2}]
        ELSE
            [pc |-> pc + 1, dir |-> "", ext |-> 0, reads |-> {pc}]

\* 0x20 <= data[i] <= 0x7E
Printable_withDEL(b) == 32 <= b /\ b <= 127
Printable(b) == 32 <= b /\ b <= 126

\* the inner while loop of find_strings: the index it stops at
RECURSIVE RunEnd(_, _)
RunEnd(d, i) ==
    IF i < Len(d) /\ Printable(Byte(d, i)) THEN RunEnd(d, i + 1) ELSE i

\* what the outer loop of find_strings adds to i after the run
StrAdvance_none(e) == e
StrAdvance(e) == e + 1

\* find_strings: one iteration of the outer loop
StrStep(d, i, base, minlen) ==
    IF Printable(Byte(d, i)) THEN
        LET e == RunEnd(d, i)
        IN  [pc |-> StrAdvance(e),
             add |-> IF e - i >= minlen
                     THEN <<<<base + i, SubSeq(d, i + 1, e)>>>> ELSE <<>>,
             reads |-> {i} \cup {k \in i..e : k < Len(d)}]
    ELSE
        [pc |-> StrAdvance(i), add |-> <<>>, reads |-> {i}]

\* find_device_id.py, extract_strings: what the if after the for loop
\* appends to strings
ExtractFlush_none(cur, minlen) == <<>>
ExtractFlush(cur, minlen) == IF Len(cur) >= minlen THEN <<cur>> ELSE <<>>

\* extract_strings: the body of the for loop for one byte
ExtractStep(cur, byte, minlen) ==
    IF 32 <= byte /\ byte <= 126
    THEN [current |-> Append(cur, byte), add |-> <<>>]
    ELSE [current |-> <<>>, add |-> IF Len(cur) >= minlen THEN <<cur>> ELSE <<>>]

\* the opcodes analyze_main_loop takes for branches
LoopBranchOps == {32} \cup (34..47) \cup (144..147)

\* analyze_main_loop
LoopStep(d, pc, base) ==
    LET op == Byte(d, pc)
        rel == Signed8(Byte(d, pc + 1))
    IN  IF op \in LoopBranchOps THEN
            IF pc + 1 < Len(d) THEN
                [pc |-> pc + 2,
                 add |-> IF rel < 0
                         THEN <<<<base + pc, base + pc + 2 + rel, -rel>>>> ELSE <<>>,
                 reads |-> {pc, pc + 1}]
            ELSE [pc |-> pc + 2, add |-> <<>>, reads |-> {pc}]
        ELSE
            [pc |-> pc + 1, add |-> <<>>, reads |-> {pc}]

\* loops.append(...): the list takes every site the loop body hands it
AppendLoops_dedup(list, add) ==
    IF \E k \in 1..Len(list) : \E j \in 1..Len(add) : list[k][2] = add[j][2]
    THEN list ELSE list \o add
AppendLoops(list, add) == list \o add

(***************************************************************************)
(* srec_to_bin.py: the text of a line is a sequence of one-character       *)
(* strings.  The fields of the lines in this model hold hexadecimal digits *)
(* only (no sign, underscore or blank inside a field), so int(s, 16) and   *)
(* bytes.fromhex(s) either give the value of the digits or raise           *)
(* ValueError (None here).                                                 *)
(***************************************************************************)
HexDigit ==
    "0" :> 0 @@ "1" :> 1 @@ "2" :> 2 @@ "3" :> 3 @@ "4" :> 4 @@ "5" :> 5
    @@ "6" :> 6 @@ "7" :> 7 @@ "8" :> 8 @@ "9" :> 9
    @@ "A" :> 10 @@ "B" :> 11 @@ "C" :> 12 @@ "D" :> 13 @@ "E" :> 14 @@ "F" :> 15
    @@ "a" :> 10 @@ "b" :> 11 @@ "c" :> 12 @@ "d" :> 13 @@ "e" :> 14 @@ "f" :> 15

Whitespace == {" ", "\n", "\r", "\t"}

RECURSIVE lstrip(_)
lstrip(s) == IF s # <<>> /\ Head(s) \in Whitespace THEN lstrip(Tail(s)) ELSE s

RECURSIVE rstrip(_)
rstrip(s) ==
    IF s # <<>> /\ s[Len(s)] \in Whitespace THEN rstrip(SubSeq(s, 1, Len(s) - 1)) ELSE s

\* line.strip()
strip(s) == rstrip(lstrip(s))

\* s[a:b] for 0 <= a and 0 <= b
Slice(s, a, b) == SubSeq(s, a + 1, Min(b, Len(s)))

RECURSIVE HexValue(_, _)
HexValue(s, acc) ==
    IF s = <<>> THEN acc ELSE HexValue(Tail(s), acc * 16 + HexDigit[Head(s)])

\* int(s, 16): None stands for ValueError
IntHex(s) ==
    IF s = <<>> \/ \E k \in 1..Len(s) : s[k] \notin DOMAIN HexDigit
    THEN None
    ELSE Some(HexValue(s, 0))

\* bytes.fromhex(s): None stands for ValueError
FromHex(s) ==
    IF Len(s) % 2 = 1 \/ \E k \in 1..Len(s) : s[k] \notin DOMAIN HexDigit
    THEN None
    ELSE Some([k \in 1..(Len(s) \div 2) |->
                 HexDigit[s[2 * k - 1]] * 16 + HexDigit[s[2 * k]]])

\* if start_addr is None or address < start_addr: start_addr = address
NewStart_first(start, address) == IF start = None THEN Some(address) ELSE start
NewStart(start, address) ==
    IF start = None \/ address < start[1] THEN Some(address) ELSE start

\* if address + len(data) > end_addr: end_addr = address + len(data)
NewEnd(end, address, n) == IF address + n > end THEN address + n ELSE end

\* for i, b in enumerate(data): memory[address + i] = b
Store_fromOne(mem, address, bytes) ==
    [a \in DOMAIN mem \cup {address + i : i \in 1..Len(bytes)} |->
        IF a > address /\ a <= address + Len(bytes)
        THEN bytes[a - address] ELSE mem[a]]
Store_keepFirst(mem, address, bytes) ==
    [a \in DOMAIN mem \cup {address + i : i \in 0..(Len(bytes) - 1)} |->
        IF a \in DOMAIN mem THEN mem[a] ELSE bytes[a - address + 1]]
Store(mem, address, bytes) ==
    [a \in DOMAIN mem \cup {address + i : i \in 0..(Len(bytes) - 1)} |->
        IF a >= address /\ a < address + Len(bytes)
        THEN bytes[a - address + 1] ELSE mem[a]]

\* the state of parse_srec between two lines
Loader(mem, start, end, st) ==
    [memory |-> mem, start_addr |-> start, end_addr |-> end, status |-> st]

\* the end of the payload slice: addr_end + (byte_count - overhead) * 2
PayloadEnd_withChecksum(addr_end, byte_count, overhead) ==
    addr_end + (byte_count - overhead + 1) * 2
PayloadEnd(addr_end, byte_count, overhead) ==
    addr_end + (byte_count - overhead) * 2

\* a data record: the address field is line[4:addr_end] and the payload
\* line[addr_end : addr_end + (byte_count - overhead) * 2]
DataRecord(L, line, addr_end, overhead) ==
    LET byte_count == IntHex(Slice(line, 2, 4))
        address == IntHex(Slice(line, 4, addr_end))
    IN  IF byte_count = None \/ address = None THEN [L EXCEPT !.status = "ValueError"]
        ELSE LET bytes == FromHex(Slice(line, addr_end,
                                        PayloadEnd(addr_end, byte_count[1], overhead)))
             IN  IF bytes = None THEN [L EXCEPT !.status = "ValueError"]
                 ELSE Loader(Store(L.memory, address[1], bytes[1]),
                             NewStart(L.start_addr, address[1]),
                             NewEnd(L.end_addr, address[1], Len(bytes[1])),
                             L.status)

\* the body of the for loop of parse_srec for one line of the file
ParseLine(L, raw) ==
    LET line == strip(raw)
    IN  IF line = <<>> THEN L
        ELSE IF Head(line) # "S" THEN L
        ELSE IF Len(line) < 2 THEN [L EXCEPT !.status = "IndexError"]
        ELSE LET record_type == line[2]
             IN  CASE record_type = "0" ->
                        LET byte_count == IntHex(Slice(line, 2, 4))
                        IN  IF byte_count = None
                               \/ FromHex(Slice(line, 8, 8 + (byte_count[1] - 3) * 2)) = None
                            THEN [L EXCEPT !.status = "ValueError"]
                            ELSE L
                   [] record_type = "1" -> DataRecord(L, line, 8, 3)
                   [] record_type = "2" -> DataRecord(L, line, 10, 4)
                   [] record_type = "9" ->
                        IF IntHex(Slice(line, 4, 8)) = None
                        THEN [L EXCEPT !.status = "ValueError"] ELSE L
                   [] record_type = "8" ->
                        IF IntHex(Slice(line, 4, 10)) = None
                        THEN [L EXCEPT !.status = "ValueError"] ELSE L
                   [] OTHER -> L

\* the erased-flash value save_binary fills the buffer with
FillByte == 255

\* for addr, byte in memory.items(): ... binary[offset] = byte
RECURSIVE CopyData(_, _, _, _)
CopyData(bin, mem, addrs, start) ==
    IF addrs = {} THEN bin
    ELSE LET addr == CHOOSE x \in addrs : TRUE
             offset == addr - start
         IN  CopyData(IF 0 <= offset /\ offset < Len(bin)
                      THEN [bin EXCEPT ![offset + 1] = mem[addr]] ELSE bin,
                      mem, addrs \ {addr}, start)

\* save_binary: the bytes written to the output file, for size >= 0
SaveBinary_inclusive(mem, start, end) ==
    CopyData([i \in 1..(end - start + 1) |-> FillByte], mem, DOMAIN mem, start)
SaveBinary(mem, start, end) ==
    CopyData([i \in 1..(end - start) |-> FillByte], mem, DOMAIN mem, start)

(***************************************************************************)
(* cantact_pdm.py: the addressing of a CANtactPDM object.  The bus and the *)
(* PDM are the environment: a call of bus.send may raise, and a frame with *)
(* the response ID arrives before the timeout or does not.                 *)
(***************************************************************************)
\* PDM_REQUEST_ID = 0x7E0, PDM_RESPONSE_ID = 0x7E8, CAN_INPUT_BASE = 0x118
PDM_REQUEST_ID == 2016
PDM_RESPONSE_ID == 2024
CAN_INPUT_BASE == 280

\* for offset in range(16)
NumOffsets == 16

\* alt_req = 0x600 + offset * 0x10
AltReq_descending(offset) == 1536 + (15 - offset) * 16
AltReq(offset) == 1536 + offset * 16

\* alt_res = 0x608 + offset * 0x10
AltRes_asRequest(offset) == 1536 + offset * 16
AltRes(offset) == 1544 + offset * 16

\* what can happen to one send_frame on an open bus: bus.send raises, no
\* frame with the response ID arrives before the timeout, or one arrives
Outcomes == {"send_failed", "silent", "answered"}

\* one send_frame of scan_for_pdm: the ID passed to bus.send, the response
\* ID the received frames are compared with, and whether a response came back
Probe(arb_id, response_id, outcome) ==
    [req |-> arb_id, res |-> response_id, answered |-> outcome = "answered"]

(***************************************************************************)
(* The state.  A pass is called on a buffer (data) and a base address and  *)
(* runs its loop to the end; the loader reads its lines one by one.        *)
(***************************************************************************)
VARIABLES
    data,        \* the buffer handed to the pass
    base_addr,   \* base_addr / base
    pass,        \* the function running, "idle" before the call
    done,        \* the function has returned
    pc,          \* the cursor of the running pass (pc, or i in find_strings)
    iters,       \* loop iterations executed so far
    trail,       \* the cursor at the start of each iteration, in order
    reads,       \* buffer indices read so far
    max_lines,   \* disassemble: the decode limit
    lines,       \* disassemble: lines emitted
    output,      \* disassemble: the list of lines
    min_len,     \* find_strings: min_len
    subs,        \* find_subroutines: the set, and the sorted list once returned
    loops,       \* analyze_main_loop
    io_reads,    \* find_io_accesses
    io_writes,
    ram_reads,   \* find_ram_usage
    ram_writes,
    strings,     \* find_strings, extract_strings
    current,     \* extract_strings: the run being collected
    srec_lines,  \* srec_to_bin: the lines of the input file
    line_num,    \* lines processed so far
    memory,      \* address -> byte
    start_addr,
    end_addr,
    status,      \* "parsing", "returned", "raised", "saved"
    binary,      \* the buffer save_binary writes
    CAN_AVAILABLE, \* cantact_pdm: python-can could be imported
    bus,         \* CANtactPDM: self.bus, None or the open bus
    req_id,      \* self.req_id
    res_id,      \* self.res_id
    call,        \* "idle", or "scan" inside the loop of scan_for_pdm
    offset,      \* scan_for_pdm: the loop variable
    probed,      \* the send_frame calls of the last scan_for_pdm, in order
    before,      \* req_id and res_id when the last scan_for_pdm was called
    ret,         \* the last call and what it returned or raised
    last_tx      \* the ID of the last frame handed to bus.send

bufvars == <<data, base_addr, pass, done, pc, iters, trail, reads, max_lines, lines,
             output, min_len, subs, loops, io_reads, io_writes, ram_reads,
             ram_writes, strings, current>>
srecvars == <<srec_lines, line_num, memory, start_addr, end_addr, status, binary>>
canvars == <<CAN_AVAILABLE, bus, req_id, res_id, call, offset, probed, before,
             ret, last_tx>>
vars == <<bufvars, srecvars, canvars>>

\* the empty dict
EmptyMap == [x \in {} |-> 0]

(***************************************************************************)
(* The buffers the passes are run on: every byte sequence of at most       *)
(* MaxLen bytes over one of a few small sets of byte values, each set      *)
(* chosen to hold the bytes that meet in one kind of stream.               *)
(***************************************************************************)
\* 0x9E prefix, DBNZ (SP1_REL / IX_REL), LDA (SP2 / IX2), SUB (SP1 / IX1),
\* RTI (displacement -128), CLR IX1 (displacement 127)
PrefixBytes == {158, 107, 214, 224, 128, 127}
\* BRA, BRSET0, CBEQA, CBEQ IX1, and the displacements -128 and 127
RelativeBytes == {32, 0, 65, 113, 128, 127}
\* BSR, JSR ext, STA ext, LDA dir, a byte in no table, BRA / space / SPCR
ScanBytes == {173, 205, 199, 182, 172, 32}

\* BRA, BRN, BGE, and the displacements -4, -2 and -1
LoopBytes == {32, 33, 144, 252, 254, 255}
\* JSR dir, JSR ext, BSR, and the operand bytes 0x20, 0x00 and 0x02
CallBytes == {189, 205, 173, 32, 0, 2}
\* STA dir, LDA ext, STA ext, SCC1 / BSET4, the high byte of CONFIG2,
\* PORTA / BRSET0
IoBytes == {183, 198, 199, 24, 254, 0}

\* STX ext, STA ext, and the address bytes 0x00, 0x40 and 0x08: 0x0040 is the
\* first RAM address, 0x0840 the first one after the RAM
RamBytes == {207, 199, 0, 64, 8}

Corpus == {PrefixBytes, RelativeBytes, ScanBytes, LoopBytes, CallBytes, IoBytes,
           RamBytes}

SeqsUpTo(S, n) == UNION {[1..k -> S] : k \in 0..n}

Buffers == UNION {SeqsUpTo(S, MaxLen) : S \in Corpus}

Bases == {0, 32768}

Limits == {None} \cup {Some(n) : n \in 0..MaxLimit}

MinLens == {1, 2, 4}

SrecIdle ==
    /\ srec_lines = <<>>
    /\ line_num = 0
    /\ memory = EmptyMap
    /\ start_addr = None
    /\ end_addr = 0
    /\ status = "idle"
    /\ binary = <<>>

(***************************************************************************)
(* The input files of the loader: at most MaxRecords lines, each a         *)
(* well-formed S-record built from its fields or one of the other lines a  *)
(* file can hold.                                                          *)
(***************************************************************************)
\* most lines in an input file
MaxRecords == 2

HexChars == <<"0", "1", "2", "3", "4", "5", "6", "7", "8", "9",
              "A", "B", "C", "D", "E", "F">>

Hex2(n) == <<HexChars[(n \div 16) + 1], HexChars[(n % 16) + 1]>>

RECURSIVE HexBytes(_)
HexBytes(bytes) == IF bytes = <<>> THEN <<>> ELSE Hex2(Head(bytes)) \o HexBytes(Tail(bytes))

RECURSIVE SumBytes(_)
SumBytes(bytes) == IF bytes = <<>> THEN 0 ELSE Head(bytes) + SumBytes(Tail(bytes))

\* the address field of a record: 2 bytes, or 3 for the types 2 and 8
AddrField(type, address) ==
    IF type \in {"2", "8"}
    THEN <<address \div 65536, (address \div 256) % 256, address % 256>>
    ELSE <<(address \div 256) % 256, address % 256>>

\* the line "S<type><count><address><payload><checksum>\n"
SrecRecord(type, address, payload) ==
    LET body == AddrField(type, address) \o payload
        count == Len(body) + 1
        cksum == 255 - ((count + SumBytes(body)) % 256)
    IN  <<"S", type>> \o Hex2(count) \o HexBytes(body) \o Hex2(cksum) \o <<"\n">>

Payloads == {<<>>, <<171>>, <<255, 1>>}

DataLines ==
    {SrecRecord("1", a, p) : a \in {16, 18}, p \in Payloads}
    \cup {SrecRecord("2", a, p) : a \in {17, 20}, p \in Payloads}

\* a blank line, a line of blanks, "S" alone, a line of another format, a
\* header, the two end records, a record of a type the loader does not know,
\* a data record cut short after its first payload byte, a data record cut in
\* the middle of a byte
OtherLines ==
    {<<"\n">>, <<" ", " ", "\n">>, <<"S", "\n">>,
     <<":", "0", "0", "0", "0", "0", "0", "0", "1", "F", "F", "\n">>,
     SrecRecord("0", 0, <<72, 68>>),
     SrecRecord("9", 32768, <<>>),
     SrecRecord("8", 32768, <<>>),
     SrecRecord("5", 1, <<>>),
     <<"S", "1", "0", "5", "0", "0", "1", "0", "A", "B", "\n">>,
     <<"S", "1", "0", "4", "0", "0", "1", "0", "A", "\n">>}

\* the record with another checksum byte
WithChecksum(record, sum) ==
    SubSeq(record, 1, Len(record) - 3) \o Hex2(sum) \o <<"\n">>

\* data records whose checksum byte is wrong
BadSumLines ==
    {WithChecksum(SrecRecord("1", 16, <<171>>), 0),
     WithChecksum(SrecRecord("2", 17, <<255, 1>>), 255)}

SrecInputs == SeqsUpTo(DataLines \cup OtherLines \cup BadSumLines, MaxRecords)

\* CANtactPDM.__init__, and no call made yet
NewObject ==
    /\ bus = None
    /\ req_id = PDM_REQUEST_ID
    /\ res_id = PDM_RESPONSE_ID
    /\ call = "idle"
    /\ offset = 0
    /\ probed = <<>>
    /\ before = <<PDM_REQUEST_ID, PDM_RESPONSE_ID>>
    /\ ret = <<"__init__", "None">>
    /\ last_tx = None

\* no CANtactPDM object is used
CanIdle ==
    /\ CAN_AVAILABLE = FALSE
    /\ NewObject

BufIdle ==
    /\ pass = "idle"
    /\ done = FALSE
    /\ pc = 0
    /\ iters = 0
    /\ trail = <<>>
    /\ reads = {}
    /\ max_lines = None
    /\ lines = 0
    /\ output = <<>>
    /\ min_len = 4
    /\ subs = {}
    /\ loops = <<>>
    /\ io_reads = EmptyMap
    /\ io_writes = EmptyMap
    /\ ram_reads = EmptyMap
    /\ ram_writes = EmptyMap
    /\ strings = <<>>
    /\ current = <<>>

Init ==
    /\ data \in Buffers
    /\ base_addr \in Bases
    /\ BufIdle
    /\ SrecIdle
    /\ CanIdle

\* a call of one of the passes: its locals are initialised
Call(name) ==
    /\ pass = "idle"
    /\ pass' = name
    /\ UNCHANGED <<data, base_addr, done, pc, iters, trail, reads, lines, output, subs,
                   loops, io_reads, io_writes, ram_reads, ram_writes, strings,
                   current>>

\* the while condition holds and the loop body runs once
InLoop(name) ==
    /\ pass = name
    /\ ~done
    /\ pc < Len(data)

\* the while condition fails and the function returns
AtEnd(name) ==
    /\ pass = name
    /\ ~done
    /\ pc >= Len(data)

\* if max_lines and lines >= max_lines: break
LimitReached == max_lines # None /\ max_lines[1] # 0 /\ lines >= max_lines[1]

disassemble_call ==
    /\ Call("disassemble")
    /\ max_lines' \in Limits
    /\ UNCHANGED <<min_len, current, srecvars, canvars>>

disassemble_step ==
    /\ InLoop("disassemble")
    /\ ~LimitReached
    /\ LET r == Decode(data, pc, base_addr)
       IN  /\ output' = Append(output, r.line)
           /\ pc' = pc + r.line.size
           /\ reads' = reads \cup r.reads
    /\ lines' = lines + 1
    /\ iters' = iters + 1
    /\ trail' = Append(trail, pc)
    /\ UNCHANGED <<data, base_addr, pass, done, max_lines, min_len, subs, loops,
                   io_reads, io_writes, ram_reads, ram_writes, strings, current, srecvars, canvars>>

disassemble_return ==
    /\ \/ AtEnd("disassemble")
       \/ InLoop("disassemble") /\ LimitReached
    /\ done' = TRUE
    /\ UNCHANGED <<data, base_addr, pass, pc, iters, trail, reads, max_lines, lines,
                   output, min_len, subs, loops, io_reads, io_writes, ram_reads,
                   ram_writes, strings, current, srecvars, canvars>>

find_subroutines_call ==
    /\ Call("find_subroutines")
    /\ UNCHANGED <<max_lines, min_len, current, srecvars, canvars>>

find_subroutines_step ==
    /\ InLoop("find_subroutines")
    /\ LET r == SubStep(data, pc, base_addr)
       IN  /\ subs' = subs \cup r.add
           /\ pc' = r.pc
           /\ reads' = reads \cup r.reads
    /\ iters' = iters + 1
    /\ trail' = Append(trail, pc)
    /\ UNCHANGED <<data, base_addr, pass, done, max_lines, lines, output, min_len,
                   loops, io_reads, io_writes, ram_reads, ram_writes, strings,
                   current, srecvars, canvars>>

\* return sorted(subs)
find_subroutines_return ==
    /\ AtEnd("find_subroutines")
    /\ done' = TRUE
    /\ subs' = sorted(subs)
    /\ UNCHANGED <<data, base_addr, pass, pc, iters, trail, reads, max_lines, lines,
                   output, min_len, loops, io_reads, io_writes, ram_reads,
                   ram_writes, strings, current, srecvars, canvars>>

find_io_accesses_call ==
    /\ Call("find_io_accesses")
    /\ UNCHANGED <<max_lines, min_len, current, srecvars, canvars>>

find_io_accesses_step ==
    /\ InLoop("find_io_accesses")
    /\ LET r == IoStep(data, pc, base_addr)
       IN  /\ io_reads' = IF r.dir = "r"
                          THEN AppendSite(io_reads, r.reg, base_addr + pc)
                          ELSE io_reads
           /\ io_writes' = IF r.dir = "w"
                           THEN AppendSite(io_writes, r.reg, base_addr + pc)
                           ELSE io_writes
           /\ pc' = r.pc
           /\ reads' = reads \cup r.reads
    /\ iters' = iters + 1
    /\ trail' = Append(trail, pc)
    /\ UNCHANGED <<data, base_addr, pass, done, max_lines, lines, output, min_len,
                   subs, loops, ram_reads, ram_writes, strings, current, srecvars, canvars>>

find_ram_usage_call ==
    /\ Call("find_ram_usage")
    /\ UNCHANGED <<max_lines, min_len, current, srecvars, canvars>>

find_ram_usage_step ==
    /\ InLoop("find_ram_usage")
    /\ LET r == RamStep(data, pc, base_addr)
       IN  /\ ram_reads' = IF r.dir = "r" THEN Count(ram_reads, r.ext) ELSE ram_reads
           /\ ram_writes' = IF r.dir = "w" THEN Count(ram_writes, r.ext) ELSE ram_writes
           /\ pc' = r.pc
           /\ reads' = reads \cup r.reads
    /\ iters' = iters + 1
    /\ trail' = Append(trail, pc)
    /\ UNCHANGED <<data, base_addr, pass, done, max_lines, lines, output, min_len,
                   subs, loops, io_reads, io_writes, strings, current, srecvars, canvars>>

find_strings_call ==
    /\ Call("find_strings")
    /\ min_len' \in MinLens
    /\ UNCHANGED <<max_lines, current, srecvars, canvars>>

find_strings_step ==
    /\ InLoop("find_strings")
    /\ LET r == StrStep(data, pc, base_addr, min_len)
       IN  /\ strings' = strings \o r.add
           /\ pc' = r.pc
           /\ reads' = reads \cup r.reads
    /\ iters' = iters + 1
    /\ trail' = Append(trail, pc)
    /\ UNCHANGED <<data, base_addr, pass, done, max_lines, lines, output, min_len,
                   subs, loops, io_reads, io_writes, ram_reads, ram_writes,
                   current, srecvars, canvars>>

analyze_main_loop_call ==
    /\ Call("analyze_main_loop")
    /\ UNCHANGED <<max_lines, min_len, current, srecvars, canvars>>

analyze_main_loop_step ==
    /\ InLoop("analyze_main_loop")
    /\ LET r == LoopStep(data, pc, base_addr)
       IN  /\ loops' = AppendLoops(loops, r.add)
           /\ pc' = r.pc
           /\ reads' = reads \cup r.reads
    /\ iters' = iters + 1
    /\ trail' = Append(trail, pc)
    /\ UNCHANGED <<data, base_addr, pass, done, max_lines, lines, output, min_len,
                   subs, io_reads, io_writes, ram_reads, ram_writes, strings,
                   current, srecvars, canvars>>

extract_strings_call ==
    /\ Call("extract_strings")
    /\ min_len' \in MinLens
    /\ UNCHANGED <<max_lines, current, srecvars, canvars>>

\* one iteration of "for byte in data"
extract_strings_step ==
    /\ InLoop("extract_strings")
    /\ LET r == ExtractStep(current, Byte(data, pc), min_len)
       IN  /\ strings' = strings \o r.add
           /\ current' = r.current
    /\ pc' = pc + 1
    /\ reads' = reads \cup {pc}
    /\ iters' = iters + 1
    /\ trail' = Append(trail, pc)
    /\ UNCHANGED <<data, base_addr, pass, done, max_lines, lines, output, min_len,
                   subs, loops, io_reads, io_writes, ram_reads, ram_writes,
                   srecvars, canvars>>

\* the if after the loop, and return strings
extract_strings_return ==
    /\ AtEnd("extract_strings")
    /\ done' = TRUE
    /\ strings' = strings \o ExtractFlush(current, min_len)
    /\ UNCHANGED <<data, base_addr, pass, pc, iters, trail, reads, max_lines, lines,
                   output, min_len, subs, loops, io_reads, io_writes, ram_reads,
                   ram_writes, current, srecvars, canvars>>

\* the return of a scan whose result is the value its loop built
scan_return ==
    /\ \E name \in {"find_io_accesses", "find_ram_usage", "find_strings",
                    "analyze_main_loop"} : AtEnd(name)
    /\ done' = TRUE
    /\ UNCHANGED <<data, base_addr, pass, pc, iters, trail, reads, max_lines, lines,
                   output, min_len, subs, loops, io_reads, io_writes, ram_reads,
                   ram_writes, strings, current, srecvars, canvars>>

(***************************************************************************)
(* srec_to_bin.py: main calls parse_srec on the input file, prints the     *)
(* range of the image and calls save_binary.                               *)
(***************************************************************************)
InitSrec ==
    /\ srec_lines \in SrecInputs
    /\ line_num = 0
    /\ memory = EmptyMap
    /\ start_addr = None
    /\ end_addr = 0
    /\ status = "parsing"
    /\ binary = <<>>
    /\ data = <<>>
    /\ base_addr = 0
    /\ BufIdle
    /\ CanIdle

Raised == status \in {"IndexError", "ValueError", "TypeError"}

\* one iteration of "for line_num, line in enumerate(f, 1)"
parse_srec_line ==
    /\ status = "parsing"
    /\ line_num < Len(srec_lines)
    /\ LET L == ParseLine(Loader(memory, start_addr, end_addr, status),
                          srec_lines[line_num + 1])
       IN  /\ memory' = L.memory
           /\ start_addr' = L.start_addr
           /\ end_addr' = L.end_addr
           /\ status' = L.status
    /\ line_num' = line_num + 1
    /\ UNCHANGED <<srec_lines, binary, bufvars, canvars>>

\* return memory, start_addr, end_addr
parse_srec_return ==
    /\ status = "parsing"
    /\ line_num = Len(srec_lines)
    /\ status' = "returned"
    /\ UNCHANGED <<srec_lines, line_num, memory, start_addr, end_addr, binary, bufvars, canvars>>

\* main after parse_srec returned: f"{start_addr:04X}" raises TypeError for
\* None, bytearray(size) raises ValueError for a negative size, otherwise
\* save_binary builds and writes the buffer
main_save ==
    /\ status = "returned"
    /\ IF start_addr = None THEN
            /\ status' = "TypeError"
            /\ binary' = binary
       ELSE IF end_addr - start_addr[1] < 0 THEN
            /\ status' = "ValueError"
            /\ binary' = binary
       ELSE
            /\ status' = "saved"
            /\ binary' = SaveBinary(memory, start_addr[1], end_addr)
    /\ UNCHANGED <<srec_lines, line_num, memory, start_addr, end_addr, bufvars, canvars>>

NextSrec ==
    \/ parse_srec_line
    \/ parse_srec_return
    \/ main_save

SpecSrec == InitSrec /\ [][NextSrec]_vars

(***************************************************************************)
(* cantact_pdm.py: the calls on one CANtactPDM object.  scan_for_pdm is    *)
(* several steps, one per send_frame it makes; no other call starts while  *)
(* it runs.                                                                *)
(***************************************************************************)
InitCan ==
    /\ CAN_AVAILABLE \in BOOLEAN
    /\ NewObject
    /\ data = <<>>
    /\ base_addr = 0
    /\ BufIdle
    /\ SrecIdle

\* connect: RuntimeError without python-can; the bus on success, False when
\* can.interface.Bus raises
connect ==
    /\ call = "idle"
    /\ IF ~CAN_AVAILABLE THEN
            /\ ret' = <<"connect", "RuntimeError">>
            /\ bus' = bus
       ELSE \E opened \in BOOLEAN :
            /\ bus' = IF opened THEN Some("Bus") ELSE bus
            /\ ret' = <<"connect", IF opened THEN "True" ELSE "False">>
    /\ UNCHANGED <<CAN_AVAILABLE, req_id, res_id, call, offset, probed, before,
                   last_tx, bufvars, srecvars>>

\* disconnect
disconnect ==
    /\ call = "idle"
    /\ bus' = None
    /\ ret' = <<"disconnect", "None">>
    /\ UNCHANGED <<CAN_AVAILABLE, req_id, res_id, call, offset, probed, before,
                   last_tx, bufvars, srecvars>>

\* send_frame called from outside with an arbitration ID
send_frame ==
    /\ call = "idle"
    /\ \E arb_id \in {req_id, CAN_INPUT_BASE}, outcome \in Outcomes :
        IF bus = None THEN
            /\ ret' = <<"send_frame", "RuntimeError">>
            /\ last_tx' = last_tx
        ELSE
            /\ last_tx' = Some(arb_id)
            /\ ret' = <<"send_frame", IF outcome = "answered" THEN "response" ELSE "None">>
    /\ UNCHANGED <<CAN_AVAILABLE, bus, req_id, res_id, call, offset, probed,
                   before, bufvars, srecvars>>

\* send_can_input: ValueError for a message number outside 0..3,
\* AttributeError from self.bus.send when there is no bus
send_can_input ==
    /\ call = "idle"
    /\ \E message_num \in -1..4 :
        IF message_num < 0 \/ message_num > 3 THEN
            /\ ret' = <<"send_can_input", "ValueError">>
            /\ last_tx' = last_tx
        ELSE IF bus = None THEN
            /\ ret' = <<"send_can_input", "AttributeError">>
            /\ last_tx' = last_tx
        ELSE
            /\ ret' = <<"send_can_input", "None">>
            /\ last_tx' = Some(CAN_INPUT_BASE + message_num)
    /\ UNCHANGED <<CAN_AVAILABLE, bus, req_id, res_id, call, offset, probed,
                   before, bufvars, srecvars>>

\* scan_for_pdm up to the first "if response": the request goes to the
\* current req_id; without a bus send_frame raises RuntimeError
scan_for_pdm_call ==
    /\ call = "idle"
    /\ before' = <<req_id, res_id>>
    /\ IF bus = None THEN
            /\ ret' = <<"scan_for_pdm", "RuntimeError">>
            /\ probed' = <<>>
            /\ UNCHANGED <<call, offset, last_tx>>
       ELSE \E outcome \in Outcomes :
            /\ probed' = <<Probe(req_id, res_id, outcome)>>
            /\ last_tx' = Some(req_id)
            /\ offset' = 0
            /\ IF outcome = "answered"
               THEN ret' = <<"scan_for_pdm", "True">> /\ call' = "idle"
               ELSE ret' = <<"scan_for_pdm", "running">> /\ call' = "scan"
    /\ UNCHANGED <<CAN_AVAILABLE, bus, req_id, res_id, bufvars, srecvars>>

\* one iteration of "for offset in range(16)"
scan_for_pdm_probe ==
    /\ call = "scan"
    /\ offset < NumOffsets
    /\ req_id' = AltReq(offset)
    /\ res_id' = AltRes(offset)
    /\ \E outcome \in Outcomes :
        /\ probed' = Append(probed, Probe(req_id', res_id', outcome))
        /\ last_tx' = Some(req_id')
        /\ IF outcome = "answered"
           THEN ret' = <<"scan_for_pdm", "True">> /\ call' = "idle" /\ offset' = offset
           ELSE ret' = <<"scan_for_pdm", "running">> /\ call' = "scan" /\ offset' = offset + 1
    /\ UNCHANGED <<CAN_AVAILABLE, bus, before, bufvars, srecvars>>

\* the loop is over: print("No PDM found"); return False
scan_for_pdm_return ==
    /\ call = "scan"
    /\ offset >= NumOffsets
    /\ ret' = <<"scan_for_pdm", "False">>
    /\ call' = "idle"
    /\ UNCHANGED <<CAN_AVAILABLE, bus, req_id, res_id, offset, probed, before,
                   last_tx, bufvars, srecvars>>

NextCan ==
    \/ connect
    \/ disconnect
    \/ send_frame
    \/ send_can_input
    \/ scan_for_pdm_call
    \/ scan_for_pdm_probe
    \/ scan_for_pdm_return

SpecCan == InitCan /\ [][NextCan]_vars

Next ==
    \/ disassemble_call
    \/ disassemble_step
    \/ disassemble_return
    \/ find_subroutines_call
    \/ find_subroutines_step
    \/ find_subroutines_return
    \/ find_io_accesses_call
    \/ find_io_accesses_step
    \/ find_ram_usage_call
    \/ find_ram_usage_step
    \/ find_strings_call
    \/ find_strings_step
    \/ analyze_main_loop_call
    \/ analyze_main_loop_step
    \/ extract_strings_call
    \/ extract_strings_step
    \/ extract_strings_return
    \/ scan_return

Spec == Init /\ [][Next]_vars

(***************************************************************************)
(* Properties of the disassembler                                          *)
(***************************************************************************)
\* the lines of an unlimited disassembly
Unlimited == pass = "disassemble" /\ max_lines = None

\* the offset in the buffer of the k-th line
OffsetOf(k) == output[k].addr - base_addr

RECURSIVE SumSizes(_)
SumSizes(out) == IF out = <<>> THEN 0 ELSE Head(out).size + SumSizes(Tail(out))

\* C1: the lines of an unlimited disassembly tile [base, base+len): the first
\* starts at base, each next one starts where the previous one ends, the
\* cursor never passes len, and at the return the consumed lengths sum to len.
C1_Tiling ==
    Unlimited =>
        /\ \A k \in 1..Len(output) :
              output[k].addr = base_addr + SumSizes(SubSeq(output, 1, k - 1))
        /\ pc = SumSizes(output)
        /\ pc <= Len(data)
        /\ done => SumSizes(output) = Len(data)

\* the opcode at offset o is in a table (the secondary one through the 0x9E
\* prefix, else the primary one) and its total length passes the buffer end
TooLong(o) ==
    LET b == data[o + 1]
    IN  IF b = 158 /\ o + 1 < Len(data) /\ data[o + 2] \in DOMAIN HC08_9E_OPCODES
        THEN o + HC08_9E_OPCODES[data[o + 2]][3] + 1 > Len(data)
        ELSE b \in DOMAIN HC08_OPCODES /\ o + HC08_OPCODES[b][3] > Len(data)

\* C2: an opcode found in a table whose total length (prefix included) passes
\* the end of the buffer gives a 1-byte DB line and an advance of exactly 1.
C2_TruncatedIsDB ==
    pass = "disassemble" =>
        \A k \in 1..Len(output) :
            TooLong(OffsetOf(k)) => output[k].mnem = "DB" /\ output[k].size = 1

\* the byte at offset o has no entry in the primary table and starts no
\* prefixed instruction
Unknown(o) ==
    /\ data[o + 1] \notin DOMAIN HC08_OPCODES
    /\ ~(/\ data[o + 1] = 158
         /\ o + 1 < Len(data)
         /\ data[o + 2] \in DOMAIN HC08_9E_OPCODES)

\* C3: a byte with no entry in the primary table that starts no prefixed
\* instruction gives exactly one 1-byte DB line showing that byte, and the next
\* line (or the cursor, after the last line) is at offset + 1.
C3_UnknownByte ==
    pass = "disassemble" =>
        \A k \in 1..Len(output) :
            Unknown(OffsetOf(k)) =>
                /\ output[k].mnem = "DB"
                /\ output[k].nbytes = 1
                /\ output[k].operand.v = <<data[OffsetOf(k) + 1]>>
                /\ IF k < Len(output)
                   THEN OffsetOf(k + 1) = OffsetOf(k) + 1
                   ELSE pc = OffsetOf(k) + 1

\* a 0x9E followed by a byte of no secondary entry gave a DB line, and the
\* line after it starts one byte further
C3_Witness ==
    /\ pass = "disassemble"
    /\ \E k \in 1..(Len(output) - 1) :
          /\ data[OffsetOf(k) + 1] = 158
          /\ output[k].mnem = "DB"
          /\ OffsetOf(k + 1) = OffsetOf(k) + 1

RelativeModes == {"REL", "DIR_REL", "IMM_REL", "IX_REL", "IX1_REL", "SP1_REL"}

\* the k-th line is an instruction of a relative mode whose target was rendered
HasTarget(k) == output[k].mode \in RelativeModes /\ output[k].operand.fmt # "???"

\* the displacement byte of the k-th line: the last byte of the instruction
DispByte(k) == data[OffsetOf(k) + output[k].size]

\* the target rendered in the k-th line: the last value of its operand
Target(k) == output[k].operand.v[Len(output[k].operand.v)]

\* C4: a relative-mode instruction at address A of total length L with
\* displacement byte d renders the target A + L + D, D the two's-complement
\* value of d.
C4_BranchTarget ==
    pass = "disassemble" =>
        \A k \in 1..Len(output) :
            HasTarget(k) =>
                Target(k) = output[k].addr + output[k].size
                            + (((DispByte(k) + 128) % 256) - 128)

\* one disassembly holds a branch with displacement -128 and one with 127
C4_Witness ==
    /\ pass = "disassemble"
    /\ \E j, k \in 1..Len(output) :
          /\ HasTarget(j) /\ DispByte(j) = 128
          /\ Target(j) = output[j].addr + output[j].size - 128
          /\ HasTarget(k) /\ DispByte(k) = 127
          /\ Target(k) = output[k].addr + output[k].size + 127

(***************************************************************************)
(* Properties of all the passes                                            *)
(***************************************************************************)
\* C5: no pass reads the buffer at an index outside 0..len-1.
C5_ReadsInBounds == \A i \in reads : 0 <= i /\ i < Len(data)

\* a disassembly returned whose last instruction is a prefixed one cut short
\* by the end of the buffer
C5_Witness ==
    /\ pass = "disassemble"
    /\ done
    /\ output # <<>>
    /\ output[Len(output)].mode \in {"SP1", "SP2", "SP1_REL"}
    /\ output[Len(output)].nbytes < output[Len(output)].size
    /\ reads = 0..(Len(data) - 1)

\* C6: in every pass each loop iteration moves the cursor forward by at least
\* 1, and a pass runs at most len iterations.
C6_Progress ==
    /\ [][iters' # iters => pc' >= pc + 1]_vars
    /\ [](iters <= Len(data))

\* a scan returned after as many iterations as the longest buffer has bytes
C6_Witness ==
    /\ pass = "find_strings"
    /\ done
    /\ Len(data) = MaxLen
    /\ iters = Len(data)

(***************************************************************************)
(* Properties of the loader                                                *)
(***************************************************************************)
\* the line is a type-1 or type-2 record
IsDataLine(raw) ==
    LET line == strip(raw)
    IN  Len(line) >= 2 /\ line[1] = "S" /\ line[2] \in {"1", "2"}

\* the data records among the lines read so far
NumData == Cardinality({k \in 1..line_num : IsDataLine(srec_lines[k])})

\* C7: the buffer save_binary writes holds memory[a] at offset a - start for
\* every address a of the memory map and 0xFF at every other offset of
\* [0, end - start).
C7_RoundTrip ==
    status = "saved" =>
        /\ Len(binary) = end_addr - start_addr[1]
        /\ \A a \in DOMAIN memory :
              /\ a - start_addr[1] \in 0..(Len(binary) - 1)
              /\ binary[a - start_addr[1] + 1] = memory[a]
        /\ \A i \in 1..Len(binary) :
              (start_addr[1] + i - 1) \notin DOMAIN memory => binary[i] = 255

\* an image was saved from records given in descending address order, with an
\* address between them that no record wrote
C7_Witness ==
    /\ status = "saved"
    /\ Len(srec_lines) = 2
    /\ 18 \in DOMAIN memory
    /\ 16 \in DOMAIN memory
    /\ 17 \notin DOMAIN memory
    /\ IntHex(Slice(srec_lines[1], 4, 8)) = Some(18)
    /\ binary[2] = 255

\* C8: with zero data records parse_srec returns no image: the load ends in
\* an error.
C8_NoDataIsFatal == status = "returned" => NumData > 0

\* the loader over a whole file
RECURSIVE ParseAll(_, _, _)
ParseAll(L, ls, k) ==
    IF k > Len(ls) \/ L.status # "parsing" THEN L
    ELSE ParseAll(ParseLine(L, ls[k]), ls, k + 1)

DataOnly == SelectSeq(srec_lines, IsDataLine)

\* C9: the load of any file ends as the load of its type-1 and type-2 records
\* alone ends: with the same memory map, start and end address.
C9_LineErrorsSkipped ==
    status # "parsing" =>
        LET ref == ParseAll(Loader(EmptyMap, None, 0, "parsing"), DataOnly, 1)
        IN  IF status \in {"IndexError", "ValueError"}
            THEN ref.status = status
            ELSE /\ ref.status = "parsing"
                 /\ ref.memory = memory
                 /\ ref.start_addr = start_addr
                 /\ ref.end_addr = end_addr

\* C10: after a load with at least one data record end_addr >= start_addr,
\* and the buffer of save_binary has exactly end_addr - start_addr bytes.
C10_ImageSize ==
    (status \in {"returned", "saved"} /\ NumData >= 1) =>
        /\ start_addr # None
        /\ end_addr >= start_addr[1]
        /\ status = "saved" => Len(binary) = end_addr - start_addr[1]

\* an image of more than one byte was saved from two data records
C10_Witness ==
    /\ status = "saved"
    /\ NumData = 2
    /\ Len(binary) > 1

(***************************************************************************)
(* The scans of analyze_pdm.py                                             *)
(***************************************************************************)
\* the offsets the cursor of the running pass has visited
Visited == {trail[k] : k \in 1..Len(trail)}

\* the signed value of the byte after offset o
Displacement(o) == LET b == data[o + 2] IN IF b > 127 THEN b - 256 ELSE b

\* the relative branches of the primary table: 0x20-0x2F and 0x90-0x93
BranchFamily == (32..47) \cup (144..147)

\* a LoopSite with this branch address is in the list
Recorded(branch) == \E j \in 1..Len(loops) : loops[j][1] = branch

\* C11: for every visited branch-family opcode whose displacement byte
\* exists, a LoopSite is recorded exactly when the target
\* base + offset + 2 + displacement is at or before the branch address.
C11_BackwardIffRecorded ==
    pass = "analyze_main_loop" =>
        \A o \in Visited :
            (data[o + 1] \in BranchFamily /\ o + 1 < Len(data)) =>
                LET branch == base_addr + o
                    target == base_addr + o + 2 + Displacement(o)
                IN  Recorded(branch) <=> target <= branch

\* C12: every recorded LoopSite is (branch, target, branch - target).
C12_BackwardDistance ==
    pass = "analyze_main_loop" =>
        \A j \in 1..Len(loops) :
            LET branch == loops[j][1]
                o == branch - base_addr
            IN  /\ loops[j][2] = branch + 2 + Displacement(o)
                /\ loops[j][3] = branch - loops[j][2]

\* the elements of a list
Elems(list) == {list[k] : k \in 1..Len(list)}

\* the target of the call at offset o: the operand byte of a direct call
\* (0xBD), the big-endian operand word of an extended call (0xCD),
\* base + offset + 2 + displacement of a relative call (0xAD); None when
\* the byte is no call opcode or its operand bytes are not all in the buffer
CallTarget(o) ==
    LET op == data[o + 1]
    IN  IF op = 189 /\ o + 1 < Len(data) THEN Some(data[o + 2])
        ELSE IF op = 205 /\ o + 2 < Len(data)
             THEN Some(data[o + 2] * 256 + data[o + 3])
        ELSE IF op = 173 /\ o + 1 < Len(data)
             THEN Some(base_addr + o + 2 + Displacement(o))
        ELSE None

\* the visited offsets that hold a recognised call
Calls == {o \in Visited : CallTarget(o) # None}

\* C13: find_subroutines returns a strictly ascending list (so without
\* duplicates) whose elements are exactly the targets of the recognised
\* calls.
C13_SortedTargets ==
    (pass = "find_subroutines" /\ done) =>
        /\ \A k \in 1..(Len(subs) - 1) : subs[k] < subs[k + 1]
        /\ Elems(subs) = {CallTarget(o)[1] : o \in Calls}

\* two calls of one target were met and the returned list has one element
C13_Witness ==
    /\ pass = "find_subroutines"
    /\ done
    /\ Cardinality(Calls) = 2
    /\ Len(subs) = 1

\* the opcodes of the register accesses, by direction: direct loads, the
\* bit-test family and the extended load; direct stores, the bit-set/clear
\* family and the extended store
ReadOps == {182, 190} \cup (0..15) \cup {198}
WriteOps == {183, 191} \cup (16..31) \cup {199}

\* the length of an access: three bytes for the bit-test family and the
\* extended forms, two for the others
AccessLen(op) == IF op \in (0..15) \cup {198, 199} THEN 3 ELSE 2

\* the operand address of the access at offset o
AccessReg(o) ==
    IF data[o + 1] \in {198, 199}
    THEN data[o + 2] * 256 + data[o + 3]
    ELSE data[o + 2]

\* offset o holds a recognised access with an opcode of ops whose operand
\* address is in the named-register table
NamedAccess(o, ops) ==
    /\ data[o + 1] \in ops
    /\ o + AccessLen(data[o + 1]) <= Len(data)
    /\ AccessReg(o) \in DOMAIN IO_REGS_analyze

\* the sites of the accesses to reg with an opcode of ops, in stream order
SitesOf(ops, reg) ==
    LET sel == SelectSeq(trail, LAMBDA o : NamedAccess(o, ops) /\ AccessReg(o) = reg)
    IN  [k \in 1..Len(sel) |-> base_addr + sel[k]]

\* the lists of every register accessed with an opcode of ops
SiteLists(ops) ==
    [reg \in {AccessReg(o) : o \in {v \in Visited : NamedAccess(v, ops)}} |->
        SitesOf(ops, reg)]

\* C14: the read lists hold exactly the sites of the recognised accesses
\* with a read opcode to a register of the table, the write lists those
\* with a write opcode; an operand not in the table records nothing.
C14_IoSites ==
    pass = "find_io_accesses" =>
        /\ io_reads = SiteLists(ReadOps)
        /\ io_writes = SiteLists(WriteOps)

\* 0xB7 0x18 twice: two write sites of SCC1 and no read site
C14_Witness ==
    /\ pass = "find_io_accesses"
    /\ done
    /\ data = <<183, 24, 183, 24>>
    /\ IO_REGS_analyze[24] = "SCC1"
    /\ io_writes = (24 :> <<base_addr, base_addr + 2>>)
    /\ io_reads = EmptyMap

\* the printable-ASCII byte values 0x20..0x7E
Ascii == 32..126

\* the maximal runs of printable bytes of the buffer, as <<start, end>> with
\* end exclusive: no printable byte before the start or at the end
MaximalRuns ==
    {r \in (0..Len(data)) \X (0..Len(data)) :
        /\ r[1] < r[2]
        /\ \A k \in (r[1] + 1)..r[2] : data[k] \in Ascii
        /\ r[1] = 0 \/ data[r[1]] \notin Ascii
        /\ r[2] = Len(data) \/ data[r[2] + 1] \notin Ascii}

\* C15: find_strings returns, in strictly ascending order of address, exactly
\* the maximal runs of printable bytes of length at least min_len, each with
\* the address base + start and the whole text of the run.
C15_MaximalRuns ==
    (pass = "find_strings" /\ done) =>
        /\ \A k \in 1..(Len(strings) - 1) : strings[k][1] < strings[k + 1][1]
        /\ Elems(strings) =
               {<<base_addr + r[1], SubSeq(data, r[1] + 1, r[2])>> :
                    r \in {m \in MaximalRuns : m[2] - m[1] >= min_len}}

\* of two runs the one shorter than min_len is left out, the other one,
\* which ends with the buffer, is reported
C15_Witness ==
    /\ pass = "find_strings"
    /\ done
    /\ min_len = 2
    /\ Cardinality(MaximalRuns) = 2
    /\ Len(strings) = 1
    /\ strings[1][1] + Len(strings[1][2]) = base_addr + Len(data)

(***************************************************************************)
(* disassemble: the decode limit, the secondary table, register names      *)
(***************************************************************************)
\* the lines of the disassembly without a limit, from offset o on
RECURSIVE LinesFrom(_)
LinesFrom(o) ==
    IF o >= Len(data) THEN <<>>
    ELSE LET line == Decode(data, o, base_addr).line
         IN  <<line>> \o LinesFrom(o + line.size)

\* C16: with a decode limit N (0 included) at most N lines are emitted, and
\* the lines returned are the first min(N, total) lines of the disassembly
\* of the same buffer without a limit.
C16_DecodeLimit ==
    (pass = "disassemble" /\ max_lines # None) =>
        LET N == max_lines[1]
            all == LinesFrom(0)
        IN  /\ Len(output) <= N
            /\ done => output = SubSeq(all, 1, Min(N, Len(all)))

\* offset o holds the prefix 0x9E followed by an existing byte of the
\* secondary table
StartsPrefixed(o) ==
    /\ data[o + 1] = 158
    /\ o + 1 < Len(data)
    /\ data[o + 2] \in DOMAIN HC08_9E_OPCODES

\* the line has the mnemonic and the mode of the table entry e and length n
DecodedAs(line, e, n) ==
    /\ line.mnem = e[1]
    /\ line.mode = e[2]
    /\ line.size = n

\* C17: a line that starts at 0x9E followed by an existing byte b of the
\* secondary table has the secondary entry's mnemonic and mode and the
\* tabulated length plus 1; every other line is decoded with the primary
\* table: the primary entry of its byte, or one DB byte when the byte has no
\* primary entry or its instruction does not fit.
C17_SecondaryTable ==
    pass = "disassemble" =>
        \A k \in 1..Len(output) :
            LET o == OffsetOf(k)
                b == data[o + 1]
            IN  IF StartsPrefixed(o)
                THEN DecodedAs(output[k], HC08_9E_OPCODES[data[o + 2]],
                               HC08_9E_OPCODES[data[o + 2]][3] + 1)
                ELSE IF b \in DOMAIN HC08_OPCODES /\ o + HC08_OPCODES[b][3] <= Len(data)
                THEN DecodedAs(output[k], HC08_OPCODES[b], HC08_OPCODES[b][3])
                ELSE DecodedAs(output[k], <<"DB", "">>, 1)

\* one byte value decoded twice in a disassembly: after 0x9E with its
\* secondary entry, at the cursor with its primary entry of another mode
C17_Witness ==
    /\ pass = "disassemble"
    /\ \E j, k \in 1..Len(output) :
        /\ StartsPrefixed(OffsetOf(j))
        /\ ~StartsPrefixed(OffsetOf(k))
        /\ data[OffsetOf(k) + 1] = data[OffsetOf(j) + 2]
        /\ output[k].mnem # "DB"
        /\ output[k].mode # output[j].mode

\* the operand address of the Direct or Extended line k: one byte, or two
\* bytes big-endian
OperandAddress(k) ==
    LET o == OffsetOf(k)
    IN  IF output[k].mode = "DIR" THEN data[o + 2]
        ELSE data[o + 2] * 256 + data[o + 3]

\* C18: the operand of every Direct and Extended line is the name of the
\* register when its address is in IO_REGS, and the raw hex address
\* otherwise.
C18_RegisterNames ==
    pass = "disassemble" =>
        \A k \in 1..Len(output) :
            output[k].mode \in {"DIR", "EXT"} =>
                LET a == OperandAddress(k)
                    op == output[k].operand
                IN  IF a \in DOMAIN IO_REGS
                    THEN op.name = <<IO_REGS[a]>>
                    ELSE op.name = None /\ op.v = <<a>>

(***************************************************************************)
(* The scans of analyze_pdm.py, continued                                  *)
(***************************************************************************)
\* the cursor after the k-th iteration of the running pass
NextCursor(k) == IF k < Len(trail) THEN trail[k + 1] ELSE pc

\* the targets find_subroutines holds: its set, or its list once returned
Targets == IF done THEN Elems(subs) ELSE subs

\* the three call opcodes: direct, extended, relative
CallOps == {189, 205, 173}

\* C19: each recognised call contributes the target of its form (direct:
\* the operand byte; extended: the big-endian operand word; relative:
\* base + offset + 2 + displacement); a call opcode whose operand bytes are
\* not all in the buffer contributes nothing and moves the cursor by 1.
C19_CallTargets ==
    pass = "find_subroutines" =>
        /\ \A o \in Calls : CallTarget(o)[1] \in Targets
        /\ Targets \subseteq {CallTarget(o)[1] : o \in Calls}
        /\ \A k \in 1..Len(trail) :
               (data[trail[k] + 1] \in CallOps /\ CallTarget(trail[k]) = None) =>
                   NextCursor(k) = trail[k] + 1

\* a relative call with a negative displacement was recognised, and a call
\* opcode that lacks an operand byte was passed
C19_Witness ==
    /\ pass = "find_subroutines"
    /\ done
    /\ \E o \in Calls : data[o + 1] = 173 /\ Displacement(o) < 0
    /\ \E o \in Visited : data[o + 1] \in CallOps /\ CallTarget(o) = None

\* the visited offsets whose branch the scan records: an opcode the scan
\* takes for a branch (the family without 0x21) with an existing, negative
\* displacement byte
RecordedBranches ==
    {o \in Visited : /\ data[o + 1] \in BranchFamily \ {33}
                     /\ o + 1 < Len(data)
                     /\ data[o + 2] > 127}

\* C20: the list holds one entry per recorded branch occurrence, in
\* strictly ascending order of branch address; entries are never merged,
\* whatever their targets.
C20_NotDeduplicated ==
    pass = "analyze_main_loop" =>
        /\ Len(loops) = Cardinality(RecordedBranches)
        /\ {loops[j][1] : j \in 1..Len(loops)} =
               {base_addr + o : o \in RecordedBranches}
        /\ \A j \in 1..(Len(loops) - 1) : loops[j][1] < loops[j + 1][1]

\* two branches at different addresses with the same target are both listed
C20_Witness ==
    /\ pass = "analyze_main_loop"
    /\ done
    /\ \E j, k \in 1..Len(loops) :
        /\ loops[j][1] < loops[k][1]
        /\ loops[j][2] = loops[k][2]

\* the extended-addressed opcodes find_ram_usage takes: 0xC0-0xCF without
\* the jump 0xCC and the call 0xCD; the stores among them: STA and STX
RamOps == (192..207) \ {204, 205}
StoreOps == {199, 207}

\* the visited offsets that hold a recognised access with an opcode of ops
RamAccesses(ops) ==
    {o \in Visited : data[o + 1] \in ops /\ o + 2 < Len(data)}

\* the operand address of the extended-addressed instruction at offset o
ExtAddress(o) == data[o + 2] * 256 + data[o + 3]

\* the counters of the accesses with an opcode of ops: one count per
\* address of the RAM interval 0x0040..0x083F that was accessed
RamCounts(ops) ==
    [a \in {ExtAddress(o) : o \in RamAccesses(ops)} \cap (64..2111) |->
        Cardinality({o \in RamAccesses(ops) : ExtAddress(o) = a})]

\* C21: every recognised extended-addressed access to an address of
\* 0x0040..0x083F adds 1 to one counter of that address: the write counter
\* for the stores 0xC7 and 0xCF, the read counter for the other opcodes;
\* an address outside the interval changes no counter.
C21_RamCounters ==
    pass = "find_ram_usage" =>
        /\ ram_writes = RamCounts(StoreOps)
        /\ ram_reads = RamCounts(RamOps \ StoreOps)

(***************************************************************************)
(* Properties of the loader, continued                                     *)
(***************************************************************************)
\* the k-th line of the file without the blanks around it
Rec(k) == strip(srec_lines[k])

\* the fields of the data record k: its byte count, the number of address
\* bytes of its type, its address, the number of its payload bytes (the
\* count without the address bytes and the checksum byte), its i-th payload
\* byte (from 0)
RecCount(k) == IntHex(Slice(Rec(k), 2, 4))[1]
RecAddrBytes(k) == IF Rec(k)[2] = "1" THEN 2 ELSE 3
RecAddress(k) == IntHex(Slice(Rec(k), 4, 4 + 2 * RecAddrBytes(k)))[1]
RecPayloadLen(k) == RecCount(k) - RecAddrBytes(k) - 1
RecPayloadByte(k, i) ==
    LET at == 4 + 2 * RecAddrBytes(k) + 2 * i
    IN  IntHex(Slice(Rec(k), at, at + 2))[1]

\* the addresses the payload of record k goes to
RecAddresses(k) == {RecAddress(k) + i : i \in 0..(RecPayloadLen(k) - 1)}

\* the data records among the lines read so far
DataRecords == {k \in 1..line_num : IsDataLine(srec_lines[k])}

\* the line k holds hexadecimal digits after its type, as many as its byte
\* count says
Complete(k) ==
    /\ \A j \in 3..Len(Rec(k)) : Rec(k)[j] \in DOMAIN HexDigit
    /\ Len(Rec(k)) >= 4
    /\ Len(Rec(k)) = 4 + 2 * RecCount(k)

\* no line read so far raised an error, and every data record read is complete
CleanLoad ==
    /\ status \in {"parsing", "returned", "saved"}
    /\ \A k \in DataRecords : Complete(k)

Least(S) == CHOOSE x \in S : \A y \in S : x <= y
Greatest(S) == CHOOSE x \in S : \A y \in S : x >= y

\* C23: when parse_srec returns, start_addr is the least address that
\* received a byte and end_addr is the greatest such address plus 1.
C23_RangeOfWritten ==
    (status \in {"returned", "saved"} /\ DOMAIN memory # {}) =>
        /\ start_addr = Some(Least(DOMAIN memory))
        /\ end_addr = Greatest(DOMAIN memory) + 1

\* the line is an S-record that holds as many bytes as its count says
IsRecord(raw) ==
    LET line == strip(raw)
    IN  /\ Len(line) >= 6
        /\ line[1] = "S"
        /\ \A j \in 3..Len(line) : line[j] \in DOMAIN HexDigit
        /\ Len(line) = 4 + 2 * IntHex(Slice(line, 2, 4))[1]

\* the checksum byte of a record: its last byte
SumOf(raw) == LET line == strip(raw) IN IntHex(SubSeq(line, Len(line) - 1, Len(line)))[1]

\* the checksum a record should have: the complement of the low byte of
\* the sum of its count, address and payload bytes
RECURSIVE SumPairs(_)
SumPairs(digits) ==
    IF Len(digits) < 2 THEN 0
    ELSE HexDigit[digits[1]] * 16 + HexDigit[digits[2]] + SumPairs(SubSeq(digits, 3, Len(digits)))
RightSum(raw) ==
    LET line == strip(raw)
    IN  255 - (SumPairs(SubSeq(line, 3, Len(line) - 2)) % 256)

\* the file with the checksum byte of every record replaced by v
Resummed(v) ==
    [k \in 1..Len(srec_lines) |->
        IF IsRecord(srec_lines[k])
        THEN LET line == strip(srec_lines[k])
             IN  SubSeq(line, 1, Len(line) - 2) \o Hex2(v)
        ELSE srec_lines[k]]

\* checksum bytes tried: 0x00, 0x5A, 0xFF
SumValues == {0, 90, 255}

\* C24: the load of a file ends as the load of the same file with any other
\* checksum bytes ends: same memory map, same start and end address, and
\* rejected by neither or by both.
C24_ChecksumIgnored ==
    status \in {"returned", "IndexError", "ValueError"} =>
        \A v \in SumValues :
            LET ref == ParseAll(Loader(EmptyMap, None, 0, "parsing"), Resummed(v), 1)
            IN  /\ ref.status = (IF status = "returned" THEN "parsing" ELSE status)
                /\ ref.memory = memory
                /\ ref.start_addr = start_addr
                /\ ref.end_addr = end_addr

\* a file of a record with a wrong checksum and one with the right checksum
\* was loaded, and the payload of the first is in the map
C24_Witness ==
    /\ status = "returned"
    /\ Len(srec_lines) = 2
    /\ IsDataLine(srec_lines[1]) /\ IsRecord(srec_lines[1])
    /\ IsDataLine(srec_lines[2]) /\ IsRecord(srec_lines[2])
    /\ SumOf(srec_lines[1]) # RightSum(srec_lines[1])
    /\ SumOf(srec_lines[2]) = RightSum(srec_lines[2])
    /\ RecAddresses(1) # {}
    /\ RecAddresses(1) \cap RecAddresses(2) = {}
    /\ \A a \in RecAddresses(1) : memory[a] = RecPayloadByte(1, a - RecAddress(1))

\* the last data record read so far whose payload goes to address a
LastWriter(a) == Greatest({k \in DataRecords : a \in RecAddresses(k)})

\* C25: every address of the map holds the byte of the last record that
\* wrote it, so where two records write one address the later one wins and
\* their other addresses keep their own bytes; the saved image holds the
\* same bytes.
C25_LastWriteWins ==
    CleanLoad =>
        \A a \in DOMAIN memory :
            LET k == LastWriter(a)
                b == RecPayloadByte(k, a - RecAddress(k))
            IN  /\ memory[a] = b
                /\ status = "saved" => binary[a - start_addr[1] + 1] = b

\* two records wrote different bytes to one address and each of them wrote
\* an address of its own; the image was saved
C25_Witness ==
    /\ CleanLoad
    /\ status = "saved"
    /\ DataRecords = {1, 2}
    /\ RecAddresses(1) \ RecAddresses(2) # {}
    /\ RecAddresses(2) \ RecAddresses(1) # {}
    /\ \E a \in RecAddresses(1) \cap RecAddresses(2) :
           /\ RecPayloadByte(1, a - RecAddress(1)) # RecPayloadByte(2, a - RecAddress(2))
           /\ memory[a] = RecPayloadByte(2, a - RecAddress(2))

RECURSIVE FindStringsFrom(_)
FindStringsFrom(i) ==
    IF i >= Len(data) THEN <<>>
    ELSE LET r == StrStep(data, i, base_addr, min_len)
         IN  r.add \o FindStringsFrom(r.pc)

\* C27: for the same buffer and minimum length extract_strings returns the
\* texts find_strings returns, in the same order.
C27_SameStrings ==
    (pass = "extract_strings" /\ done) =>
        LET found == FindStringsFrom(0)
        IN  strings = [k \in 1..Len(found) |-> found[k][2]]

\* two strings were returned for a buffer that ends inside a printable run
C27_Witness ==
    /\ pass = "extract_strings"
    /\ done
    /\ Len(strings) = 2
    /\ data[Len(data)] \in Ascii

(***************************************************************************)
(* Properties of the CANtactPDM object                                     *)
(***************************************************************************)
\* the rebased pairs 0x600 + k*0x10 / 0x608 + k*0x10, 0 <= k <= 15
RebasedPairs == {<<1536 + k * 16, 1544 + k * 16>> : k \in 0..15}

\* C28: in every state of the object res_id = req_id + 8, and the pair is
\* the default 0x7E0 / 0x7E8 or one of the 16 rebased pairs.
C28_PairedIds ==
    /\ res_id = req_id + 8
    /\ <<req_id, res_id>> \in {<<2016, 2024>>} \cup RebasedPairs

\* a second scan was called on an object that an earlier scan had rebased,
\* and it moved the object to another rebased pair
C28_Witness ==
    /\ call = "idle"
    /\ ret = <<"scan_for_pdm", "True">>
    /\ before \in RebasedPairs
    /\ <<req_id, res_id>> \in RebasedPairs
    /\ <<req_id, res_id>> # before

\* the pair the i-th probe of a scan has to go to: the pair the object had
\* at the call, then the rebased pairs in ascending order of k
ProbeOrder(i) ==
    IF i = 1 THEN before ELSE <<1536 + (i - 2) * 16, 1544 + (i - 2) * 16>>

\* a scan has made at least one probe and is running or was the last call
\* to return
ScanRet(value) == ret = <<"scan_for_pdm", value>>
InScan == probed # <<>> /\ (ScanRet("running") \/ ScanRet("True") \/ ScanRet("False"))

\* C29: a scan probes the current pair and then the 16 rebased pairs in
\* ascending order, one request per pair, each answer awaited on the
\* response ID of the pair probed; no probe follows an answered one; True
\* is returned exactly after an answered probe, with req_id / res_id the
\* pair that answered; False only after 17 probes without an answer.
C29_ScanOrder ==
    InScan =>
        /\ Len(probed) <= 17
        /\ \A i \in 1..Len(probed) :
               /\ <<probed[i].req, probed[i].res>> = ProbeOrder(i)
               /\ i < Len(probed) => ~probed[i].answered
        /\ ScanRet("True") <=> probed[Len(probed)].answered
        /\ ScanRet("True") =>
               <<req_id, res_id>> = <<probed[Len(probed)].req, probed[Len(probed)].res>>
        /\ ScanRet("False") => Len(probed) = 17

\* a scan returned True at its fourth probe, the rebased pair k = 2
C29_Witness ==
    /\ ScanRet("True")
    /\ Len(probed) = 4
    /\ probed[4].answered
    /\ req_id = 1568

\* C30: when scan_for_pdm returns False, req_id and res_id are what they
\* were when it was called.
C30_FailedScanKeepsIds ==
    ScanRet("False") =>
        <<req_id, res_id>> = before

====
